---------------------------- MODULE Spec2Model ----------------------------
(***************************************************************************)
(* Retrieval-and-response pipeline of the Space Biology Knowledge Engine:  *)
(* SpaceBiologyRAG (src/rag_system/chat.py, src/backend/rag_system/chat.py)*)
(* VectorDBManager.hybrid_search and BaseVectorDB.health_check             *)
(* (src/backend/vector_db/base.py), EmbeddingGenerator                     *)
(* and EmbeddingCache (src/rag_system/embeddings.py), PineconeDB           *)
(* (src/vector_db/pinecone_client.py), clean_text and chunk_text           *)
(* (src/utils/text_processing.py) and ChatDatabase                         *)
(* (src/utils/chat_database.py).                                           *)
(*                                                                         *)
(* Python strings are modelled as sequences of one-character strings, so   *)
(* that lower(), strip() and the comparisons built on them are computed.   *)
(* Similarity scores are modelled as integers (score * 100).               *)
(***************************************************************************)
EXTENDS Integers, Sequences, FiniteSets, TLC

VARIABLES
    \* ---- SpaceBiologyRAG._format_sources called on its own
    fs_documents,   \* the `documents` argument
    fs_result,      \* what the call returned
    fs_pc,          \* "call" before the call, "done" after it
    \* ---- SpaceBiologyRAG.chat
    variant,        \* "app": src/rag_system/chat.py, "backend": src/backend/rag_system/chat.py
    query,          \* the query argument
    conversation_history,   \* the conversation_history argument
    index_matches,  \* what the vector index holds for the query, best first
    pc,             \* the step chat is at
    enhanced_query,
    query_embedding,    \* "unset", "None" or "vector"
    documents,
    web_sources,
    context,
    prompt,
    response,
    llm_failed,     \* the generate_content call raised
    exc,            \* the exception caught by chat's except branch, NoExc when none
    raised,         \* an exception left chat
    result,         \* the dict chat returned
    steps,          \* log of the steps taken and the external calls made
    \* ---- VectorDBManager.hybrid_search
    hs_collections, \* the collections argument
    hs_limit,       \* the limit argument
    hs_pc,          \* "loop" or "done"
    all_results,
    hs_returned,    \* log: what db.search did for each collection searched so far
    hs_result,      \* the list returned
    hs_raised,      \* an exception left hybrid_search
    \* ---- SpaceBiologyRAG._enhance_query_with_context called on its own
    en_variant,     \* "app" or "backend", as `variant`
    en_query,       \* the query argument
    en_history,     \* the conversation_history argument
    en_set_order,   \* the order in which this interpreter run iterates set(recent_topics)
    en_runs,        \* how many interpreter runs there have been
    en_outputs,     \* log: what each call so far returned
    \* ---- EmbeddingGenerator.generate_batch_embeddings
    gb_model_type,  \* self.model_type
    gb_texts,       \* the texts argument
    gb_batch_size,  \* the batch_size argument
    gb_i,           \* loop variable of generate_batch_embeddings
    gb_batch,       \* texts[i:i + batch_size]
    gb_pos,         \* position in the batch of _generate_gemini_batch_embeddings' loop
    gb_batch_embeddings,    \* the list the provider-specific batch function builds
    gb_embeddings,  \* the list generate_batch_embeddings builds
    gb_pc,          \* "outer", "inner", "in_call", "inner_sleep", "outer_sleep", "done"
    gb_log,         \* log of provider calls ("call", "encode") and delays ("sleep")
    gb_in_flight,   \* provider calls entered and not yet returned
    gb_failed,      \* indices of the texts whose provider call raised
    gb_result,      \* the list returned
    \* ---- PineconeDB._prepare_metadata called on its own
    pm_doc,         \* the doc argument
    pm_metadata,    \* the dict returned
    pm_pc,          \* "call" before the call, "done" after it
    \* ---- the Pinecone index and PineconeDB.insert_documents
    index_store,    \* self.index: for each namespace the vectors it holds
    ins_collection, \* the collection argument
    ins_documents,  \* the documents argument
    ins_vectors,    \* the list of vectors to upload
    ins_i,          \* loop variable of the batch loop
    ins_pc,         \* "collect", "batch" or "done"
    ins_log,        \* log of the upsert calls, the delays and the exceptions
    ins_result,     \* "True" or "False", "unset" before the return
    \* ---- create_collection, delete_collection, health_check on the index
    adm_calls,      \* log: what each call so far did
    \* ---- SpaceBiologyRAG._clean_response_content called on its own
    cl_content,     \* the content argument
    cl_once,        \* what the call returned
    cl_twice,       \* what a second call, on the returned text, returned
    cl_pc,          \* "call", "again" or "done"
    \* ---- chunk_text
    ct_text,        \* the text argument
    ct_chunk_size,  \* the chunk_size argument
    ct_overlap,     \* the overlap argument
    ct_start,       \* the local variable start
    ct_chunks,      \* the list chunks
    ct_windows,     \* for each chunk appended, the slice of text it was cut from
    ct_starts,      \* the value of start at the head of each loop iteration so far
    ct_pc,          \* "call", "loop" or "done"
    \* ---- EmbeddingCache shared by two threads
    ec_max_size,    \* self.max_size
    ec_cache,       \* self.cache: the keys it holds
    ec_access_count,\* self.access_count: its (key, count) items in insertion order
    ec_thread,      \* for each thread: the statement it is at, its text_hash, the key its eviction picked
    ec_raised,      \* the exceptions that left a get or a put
    ec_ops,         \* number of get and put calls started
    \* ---- the authors of the sources _format_sources builds
    au_metadatas,   \* for each document, doc.metadata
    au_sources,     \* the sources built so far
    au_pc,          \* "loop" or "done"
    \* ---- clean_text
    tx_text,        \* the text argument
    tx_once,        \* what the call returned
    tx_twice,       \* what a second call, on the returned text, returned
    tx_pc,          \* "call", "again" or "done"
    \* ---- ChatDatabase
    db_foreign_keys,\* whether the SQLite library enforces foreign keys on a new connection
    chat_sessions,  \* the rows of table chat_sessions, by id
    chat_messages,  \* the rows of table chat_messages, in id order
    db_next_id,     \* the next AUTOINCREMENT id of chat_messages
    db_calls,       \* log: what each call so far did
    \* ---- VectorDBManager.batch_insert over PineconeDB.insert_documents
    bi_documents,   \* the documents argument
    bi_batch_size,  \* the batch_size argument
    bi_i,           \* loop variable of the batch loop
    bi_inserted_count,\* the local variable inserted_count
    bi_upserted,    \* the ids of the vectors upserted into the backing store
    bi_pc,          \* "loop" or "done"
    bi_result       \* the count returned, -1 before the return

fsVars == <<fs_documents, fs_result, fs_pc>>

chatVars == <<variant, query, conversation_history, index_matches, pc,
              enhanced_query, query_embedding, documents, web_sources, context,
              prompt, response, llm_failed, exc, raised, result, steps>>

hsVars == <<hs_collections, hs_limit, hs_pc, all_results, hs_returned,
            hs_result, hs_raised>>

enVars == <<en_variant, en_query, en_history, en_set_order, en_runs, en_outputs>>

gbVars == <<gb_model_type, gb_texts, gb_batch_size, gb_i, gb_batch, gb_pos,
            gb_batch_embeddings, gb_embeddings, gb_pc, gb_log, gb_in_flight,
            gb_failed, gb_result>>

pmVars == <<pm_doc, pm_metadata, pm_pc>>

insVars == <<index_store, ins_collection, ins_documents, ins_vectors, ins_i,
             ins_pc, ins_log, ins_result>>

admVars == <<adm_calls>>

\* the state of the operations exercised on their own
unitVars == <<enVars, gbVars, pmVars, insVars, admVars>>

clVars == <<cl_content, cl_once, cl_twice, cl_pc>>

ctVars == <<ct_text, ct_chunk_size, ct_overlap, ct_start, ct_chunks, ct_windows, ct_starts, ct_pc>>

ecVars == <<ec_max_size, ec_cache, ec_access_count, ec_thread, ec_raised, ec_ops>>

auVars == <<au_metadatas, au_sources, au_pc>>

txVars == <<tx_text, tx_once, tx_twice, tx_pc>>

dbVars == <<db_foreign_keys, chat_sessions, chat_messages, db_next_id, db_calls>>

biVars == <<bi_documents, bi_batch_size, bi_i, bi_inserted_count, bi_upserted, bi_pc, bi_result>>

\* the state of the text, cache and storage utilities
utilVars == <<clVars, ctVars, ecVars, auVars, txVars, dbVars, biVars>>

vars == <<fsVars, chatVars, hsVars, unitVars, utilVars>>

\* what the actions of one operation leave alone
othersOfEn == <<fsVars, chatVars, hsVars, gbVars, pmVars, insVars, admVars, utilVars>>
othersOfGb == <<fsVars, chatVars, hsVars, enVars, pmVars, insVars, admVars, utilVars>>
othersOfPm == <<fsVars, chatVars, hsVars, enVars, gbVars, insVars, admVars, utilVars>>
othersOfIns == <<fsVars, chatVars, hsVars, enVars, gbVars, pmVars, admVars, utilVars>>
othersOfAdm == <<fsVars, chatVars, hsVars, enVars, gbVars, pmVars, utilVars>>
othersOfCl == <<fsVars, chatVars, hsVars, unitVars, ctVars, ecVars, auVars, txVars, dbVars, biVars>>
othersOfCt == <<fsVars, chatVars, hsVars, unitVars, clVars, ecVars, auVars, txVars, dbVars, biVars>>
othersOfEc == <<fsVars, chatVars, hsVars, unitVars, clVars, ctVars, auVars, txVars, dbVars, biVars>>
othersOfAu == <<fsVars, chatVars, hsVars, unitVars, clVars, ctVars, ecVars, txVars, dbVars, biVars>>
othersOfTx == <<fsVars, chatVars, hsVars, unitVars, clVars, ctVars, ecVars, auVars, dbVars, biVars>>
othersOfDb == <<fsVars, chatVars, hsVars, unitVars, clVars, ctVars, ecVars, auVars, txVars, biVars>>
othersOfBi == <<fsVars, chatVars, hsVars, unitVars, clVars, ctVars, ecVars, auVars, txVars, dbVars>>


---------------------------------------------------------------------------
(* Bounds of the model *)

\* longest list of hits handed to _format_sources on its own
MaxHits == 3

\* most matches the vector index holds for a chat query
MaxDocs == 2

\* most hits one collection returns to hybrid_search
MaxPerCollection == 2

\* largest limit hybrid_search is called with
MaxLimit == 3

---------------------------------------------------------------------------
(* Python str helpers *)

UpperAlpha == <<"A","B","C","D","E","F","G","H","I","J","K","L","M",
                "N","O","P","Q","R","S","T","U","V","W","X","Y","Z">>
LowerAlpha == <<"a","b","c","d","e","f","g","h","i","j","k","l","m",
                "n","o","p","q","r","s","t","u","v","w","x","y","z">>

\* str.lower() on the letters A-Z
LowerOf == [c \in {UpperAlpha[i] : i \in DOMAIN UpperAlpha} |->
               LowerAlpha[CHOOSE i \in DOMAIN UpperAlpha : UpperAlpha[i] = c]]

\* str.lower() on one character
LowerChar(c) == IF c \in DOMAIN LowerOf THEN LowerOf[c] ELSE c

\* str.lower()
StrLower(s) == [i \in DOMAIN s |-> LowerChar(s[i])]

\* the characters str.strip() removes
Whitespace == {" ", "\t", "\n", "\r"}

RECURSIVE LStrip(_)
LStrip(s) ==
    IF s = <<>> THEN s
    ELSE IF Head(s) \in Whitespace THEN LStrip(Tail(s)) ELSE s

RECURSIVE RStrip(_)
RStrip(s) ==
    IF s = <<>> THEN s
    ELSE IF s[Len(s)] \in Whitespace THEN RStrip(SubSeq(s, 1, Len(s) - 1)) ELSE s

\* str.strip()
StrStrip(s) == RStrip(LStrip(s))

\* s[:n]
Take(s, n) == SubSeq(s, 1, IF n < Len(s) THEN n ELSE Len(s))

---------------------------------------------------------------------------
(* Titles, metadata and hits *)

T_StudyX        == <<"S","t","u","d","y"," ","X">>
T_StudyXVariant == <<" ","s","t","u","d","y"," ","x">>
T_Bone          == <<"B","o","n","e">>
T_Empty         == <<>>
T_Blank         == <<" ">>
T_UnknownPadded == <<"U","N","K","N","O","W","N"," ","t","i","t","l","e"," ">>

\* the default of metadata.get('title', 'Unknown Title')
UnknownTitle == <<"U","n","k","n","o","w","n"," ","T","i","t","l","e">>
\* the literal 'unknown title' the normalized title is compared with
UnknownTitleLower == <<"u","n","k","n","o","w","n"," ","t","i","t","l","e">>

\* metadata of a hit: the title key may be absent, and a title found in the
\* store may be a value that is not a str (title_is_str = FALSE)
Meta(has, isstr, t) == [has_title |-> has, title_is_str |-> isstr, title |-> t]

\* SearchResult(id, score, metadata, content)
Hit(s, m) == [score |-> s, metadata |-> m]

\* metadata.get('title', 'Unknown Title')
MetaTitle(metadata) ==
    IF metadata.has_title THEN metadata.title ELSE UnknownTitle

\* title.lower().strip()
NormTitle(title) == StrStrip(StrLower(title))

Scores == {77, 85, 91}

FsTitles == {T_StudyX, T_StudyXVariant, T_Bone, T_Empty, T_Blank, T_UnknownPadded}

FsMetas == {Meta(TRUE, TRUE, t) : t \in FsTitles} \cup {Meta(FALSE, TRUE, <<>>)}

FsHits == {Hit(s, m) : s \in Scores, m \in FsMetas}

SeqsUpTo(S, n) == UNION {[1..k -> S] : k \in 0..n}

---------------------------------------------------------------------------
(* SpaceBiologyRAG._format_sources *)

\* the dict appended to `sources` for one document
SourceOf(doc) ==
    [title |-> MetaTitle(doc.metadata), score |-> doc.score, source_type |-> "document"]

\* list.sort(key=score, reverse=True) is stable: x goes after every element
\* whose score is at least its own
RECURSIVE InsertByScore(_, _)
InsertByScore(sorted, x) ==
    IF sorted = <<>> THEN <<x>>
    ELSE IF Head(sorted).score >= x.score
         THEN <<Head(sorted)>> \o InsertByScore(Tail(sorted), x)
         ELSE <<x>> \o sorted

RECURSIVE SortByScoreDesc(_)
SortByScoreDesc(s) ==
    IF s = <<>> THEN <<>>
    ELSE InsertByScore(SortByScoreDesc(SubSeq(s, 1, Len(s) - 1)), s[Len(s)])

\* SkipTitle without the seen_titles test: duplicates are kept
SkipTitle_NoSeen(title_lower, seen_titles) ==
    title_lower = UnknownTitleLower

\* the test that makes the loop `continue`
SkipTitle(title_lower, seen_titles) ==
    title_lower \in seen_titles \/ title_lower = UnknownTitleLower

\* the for loop over documents; title.lower() raises on a title that is no str
RECURSIVE FormatSourcesLoop(_, _, _)
FormatSourcesLoop(docs, sources, seen_titles) ==
    IF docs = <<>> THEN [raised |-> FALSE, sources |-> sources]
    ELSE LET doc == Head(docs)
             title == MetaTitle(doc.metadata)
             title_lower == NormTitle(title)
         IN  IF doc.metadata.has_title /\ ~doc.metadata.title_is_str
             THEN [raised |-> TRUE, sources |-> <<>>]
             ELSE IF SkipTitle(title_lower, seen_titles)
                  THEN FormatSourcesLoop(Tail(docs), sources, seen_titles)
                  ELSE FormatSourcesLoop(Tail(docs),
                                         Append(sources, SourceOf(doc)),
                                         seen_titles \cup {title_lower})

FormatSources(docs) ==
    LET r == FormatSourcesLoop(docs, <<>>, {})
    IN  IF r.raised THEN r
        ELSE [raised |-> FALSE, sources |-> SortByScoreDesc(r.sources)]

---------------------------------------------------------------------------
(* More str helpers *)

\* sub in s
Contains(s, sub) ==
    \E i \in 1..(Len(s) - Len(sub) + 1) : SubSeq(s, i, i + Len(sub) - 1) = sub

\* sep.join(parts)
RECURSIVE Join(_, _)
Join(parts, sep) ==
    IF parts = <<>> THEN <<>>
    ELSE IF Len(parts) = 1 THEN parts[1]
    ELSE parts[1] \o sep \o Join(Tail(parts), sep)

\* s.split(): the maximal runs of non-whitespace characters
RECURSIVE SplitFrom(_, _, _)
SplitFrom(s, word, words) ==
    IF s = <<>> THEN (IF word = <<>> THEN words ELSE Append(words, word))
    ELSE IF Head(s) \in Whitespace
         THEN SplitFrom(Tail(s), <<>>, IF word = <<>> THEN words ELSE Append(words, word))
         ELSE SplitFrom(Tail(s), Append(word, Head(s)), words)

StrSplit(s) == SplitFrom(s, <<>>, <<>>)

\* s[-n:]
LastN(s, n) == IF Len(s) <= n THEN s ELSE SubSeq(s, Len(s) - n + 1, Len(s))

\* the elements of a list as a set
Range(s) == {s[i] : i \in DOMAIN s}

\* the first occurrences of a list's elements, in order
RECURSIVE SelectSeq2(_, _)
SelectSeq2(s, keep) ==
    IF s = <<>> THEN <<>>
    ELSE IF keep[1] THEN <<s[1]>> \o SelectSeq2(Tail(s), Tail(keep))
         ELSE SelectSeq2(Tail(s), Tail(keep))

---------------------------------------------------------------------------
(* SpaceBiologyRAG._extract_search_terms, _search_real_web_content,        *)
(* _get_web_sources (src/rag_system/chat.py only)                          *)

space_bio_terms == <<
    <<"m","i","c","r","o","g","r","a","v","i","t","y">>, <<"s","p","a","c","e"," ","b","i","o","l","o","g","y">>, <<"I","S","S">>, <<"a","s","t","r","o","n","a","u","t">>, <<"s","p","a","c","e"," ","s","t","a","t","i","o","n">>,
    <<"b","o","n","e"," ","d","e","n","s","i","t","y">>, <<"m","u","s","c","l","e"," ","a","t","r","o","p","h","y">>, <<"s","p","a","c","e"," ","a","g","r","i","c","u","l","t","u","r","e">>, <<"p","l","a","n","t"," ","g","r","o","w","t","h">>,
    <<"r","a","d","i","a","t","i","o","n"," ","e","f","f","e","c","t","s">>, <<"c","a","r","d","i","o","v","a","s","c","u","l","a","r">>, <<"n","e","u","r","o","l","o","g","i","c","a","l">>, <<"c","e","l","l"," ","b","i","o","l","o","g","y">>,
    <<"t","i","s","s","u","e"," ","e","n","g","i","n","e","e","r","i","n","g">>, <<"s","p","a","c","e"," ","m","e","d","i","c","i","n","e">>, <<"s","p","a","c","e"," ","r","e","s","e","a","r","c","h">>, <<"N","A","S","A">>,
    <<"s","p","a","c","e","f","l","i","g","h","t">>, <<"z","e","r","o"," ","g","r","a","v","i","t","y">>, <<"M","a","r","s"," ","m","i","s","s","i","o","n">>, <<"l","u","n","a","r"," ","r","e","s","e","a","r","c","h">>,
    <<"s","k","e","l","e","t","a","l">>, <<"b","o","n","e">>, <<"b","o","n","e","s">>, <<"s","k","e","l","e","t","o","n">>, <<"o","s","t","e","o","p","o","r","o","s","i","s">> >>

\* term.lower() of each term
space_bio_terms_lower == [i \in DOMAIN space_bio_terms |-> StrLower(space_bio_terms[i])]

DefaultSearchTerm == <<"s","p","a","c","e"," ","b","i","o","l","o","g","y"," ","r","e","s","e","a","r","c","h">>

ExtractSearchTerms(q) ==
    LET query_lower == StrLower(q)
        found_terms == SelectSeq2(space_bio_terms,
                           [i \in DOMAIN space_bio_terms |->
                               Contains(query_lower, space_bio_terms_lower[i])])
    IN  IF found_terms = <<>> THEN <<DefaultSearchTerm>> ELSE found_terms

WebSource(t, u, s, ty) == [title |-> t, url |-> u, score |-> s, source_type |-> ty]

W_Microgravity1 == WebSource(<<"M","i","c","r","o","g","r","a","v","i","t","y"," ","R","e","s","e","a","r","c","h"," ","-"," ","N","A","S","A"," ","H","u","m","a","n"," ","R","e","s","e","a","r","c","h"," ","P","r","o","g","r","a","m">>,
                     "https://www.nasa.gov/humans-in-space/human-research-program/", 95, "web")
W_Microgravity2 == WebSource(<<"M","i","c","r","o","g","r","a","v","i","t","y"," ","S","c","i","e","n","c","e"," ","R","e","s","e","a","r","c","h"," ","I","m","a","g","e","s">>,
                     "https://images.nasa.gov/search?q=microgravity", 88, "image_source")
W_Bone          == WebSource(<<"S","p","a","c","e"," ","M","e","d","i","c","i","n","e"," ","R","e","s","e","a","r","c","h"," ","o","n"," ","B","o","n","e"," ","H","e","a","l","t","h">>,
                     "https://www.nasa.gov/missions/station/research/benefits/bone-health/", 93, "web")
W_Skeletal      == WebSource(<<"S","p","a","c","e"," ","B","i","o","l","o","g","y"," ","R","e","s","e","a","r","c","h"," ","D","a","t","a","b","a","s","e">>,
                     "https://genelab.nasa.gov/", 96, "web")
W_Space         == WebSource(<<"I","n","t","e","r","n","a","t","i","o","n","a","l"," ","S","p","a","c","e"," ","S","t","a","t","i","o","n"," ","R","e","s","e","a","r","c","h">>,
                     "https://www.issnationallab.org/research/", 91, "web")
W_General       == WebSource(<<"N","A","S","A"," ","S","p","a","c","e"," ","B","i","o","l","o","g","y"," ","R","e","s","e","a","r","c","h">>,
                     "https://www.nasa.gov/ames/research/space-biosciences/", 90, "web")

\* real_sources_map, in the dict's insertion order
real_sources_map == <<
    [key |-> <<"m","i","c","r","o","g","r","a","v","i","t","y">>, sources |-> <<W_Microgravity1, W_Microgravity2>>],
    [key |-> <<"b","o","n","e">>,         sources |-> <<W_Bone>>],
    [key |-> <<"s","k","e","l","e","t","a","l">>,     sources |-> <<W_Skeletal>>],
    [key |-> <<"s","p","a","c","e">>,        sources |-> <<W_Space>>] >>

\* key in term_lower or any(word in term_lower for word in key.split())
KeyMatches(key, term_lower) ==
    \/ Contains(term_lower, key)
    \/ \E w \in Range(StrSplit(key)) : Contains(term_lower, w)

\* the sources of the first key of the map that matches the term (break)
SourcesForTerm(term) ==
    LET term_lower == StrLower(term)
        hits == {i \in DOMAIN real_sources_map : KeyMatches(real_sources_map[i].key, term_lower)}
    IN  IF hits = {} THEN <<>>
        ELSE real_sources_map[CHOOSE i \in hits : \A j \in hits : i <= j].sources

RECURSIVE SourcesForTerms(_)
SourcesForTerms(terms) ==
    IF terms = <<>> THEN <<>>
    ELSE SourcesForTerm(Head(terms)) \o SourcesForTerms(Tail(terms))

\* "Remove duplicates based on URL"
RECURSIVE UniqueByUrl(_, _)
UniqueByUrl(web, seen_urls) ==
    IF web = <<>> THEN <<>>
    ELSE IF Head(web).url \in seen_urls THEN UniqueByUrl(Tail(web), seen_urls)
         ELSE <<Head(web)>> \o UniqueByUrl(Tail(web), seen_urls \cup {Head(web).url})

SearchRealWebContent(terms) ==
    LET matched == SourcesForTerms(terms)
        web == IF matched = <<>> THEN <<W_General>> ELSE matched
    IN  Take(UniqueByUrl(web, {}), 3)

GetWebSources(q) ==
    Take(SearchRealWebContent(Take(ExtractSearchTerms(q), 2)), 3)

---------------------------------------------------------------------------
(* Conversation history and SpaceBiologyRAG._enhance_query_with_context *)

\* one message dict; a key may be absent (msg['role'] then raises KeyError)
Msg(hasRole, role, hasContent, content) ==
    [has_role |-> hasRole, role |-> role, has_content |-> hasContent, content |-> content]

NoExc == <<>>
KeyErrorRole    == <<"'","r","o","l","e","'">>
KeyErrorContent == <<"'","c","o","n","t","e","n","t","'">>
TitleLowerError == <<"'","i","n","t","'"," ","o","b","j","e","c","t"," ","h","a","s"," ","n","o"," ","a","t","t","r","i","b","u","t","e"," ","'","l","o","w","e","r","'">>

EnhanceWindow(v) == IF v = "app" THEN 6 ELSE 8
PromptWindow(v)  == IF v = "app" THEN 6 ELSE 8
PromptMsgCap(v)  == IF v = "app" THEN 300 ELSE 400
MaxContextTerms(v) == IF v = "app" THEN 3 ELSE 4

keywords_app == <<
    <<"m","i","c","r","o","g","r","a","v","i","t","y">>, <<"s","p","a","c","e">>, <<"b","o","n","e">>, <<"m","u","s","c","l","e">>, <<"p","l","a","n","t">>, <<"c","e","l","l">>, <<"r","a","d","i","a","t","i","o","n">>,
    <<"a","s","t","r","o","n","a","u","t">>, <<"i","s","s">>, <<"m","i","s","s","i","o","n">>, <<"e","x","p","e","r","i","m","e","n","t">>, <<"t","i","s","s","u","e">>, <<"g","r","o","w","t","h">>, <<"p","r","o","t","e","i","n">> >>

keywords_backend == keywords_app \o <<
    <<"c","a","r","d","i","o","v","a","s","c","u","l","a","r">>, <<"h","e","a","r","t">>, <<"b","l","o","o","d">>, <<"n","e","u","r","a","l">>, <<"b","r","a","i","n">>, <<"k","i","d","n","e","y">>, <<"r","e","n","a","l">>,
    <<"i","m","m","u","n","e">>, <<"m","e","t","a","b","o","l","i","s","m">>, <<"c","a","l","c","i","u","m">>, <<"o","s","t","e","o">>, <<"f","l","u","i","d">>, <<"g","r","a","v","i","t","y">>, <<"c","o","s","m","i","c">>,
    <<"m","a","r","s">>, <<"m","o","o","n">>, <<"s","p","a","c","e","c","r","a","f","t">>, <<"h","a","b","i","t","a","t">>, <<"c","o","u","n","t","e","r","m","e","a","s","u","r","e">>, <<"b","i","o","m","a","r","k","e","r">> >>

Keywords(v) == IF v = "app" THEN keywords_app ELSE keywords_backend

focus_words == {<<"e","f","f","e","c","t","s">>, <<"i","m","p","a","c","t">>, <<"c","h","a","n","g","e","s">>, <<"f","u","n","c","t","i","o","n">>, <<"h","e","a","l","t","h">>,
                <<"r","e","s","e","a","r","c","h">>, <<"s","t","u","d","i","e","s">>}

\* the exception the loop over the history window raises, NoExc when none:
\* app reads msg['role'], then msg['content'] of user messages; backend reads
\* msg['content'] of every message, then msg['role']
RECURSIVE EnhanceError(_, _)
EnhanceError(v, msgs) ==
    IF msgs = <<>> THEN NoExc
    ELSE LET msg == Head(msgs)
             here == IF v = "app"
                     THEN IF ~msg.has_role THEN KeyErrorRole
                          ELSE IF msg.role = "user" /\ ~msg.has_content THEN KeyErrorContent
                          ELSE NoExc
                     ELSE IF ~msg.has_content THEN KeyErrorContent
                          ELSE IF ~msg.has_role THEN KeyErrorRole
                          ELSE NoExc
         IN  IF here # NoExc THEN here ELSE EnhanceError(v, Tail(msgs))

\* the keywords found in one message (only user messages count in app)
MsgTopics(v, msg) ==
    IF v = "app" /\ msg.role # "user" THEN {}
    ELSE {k \in Range(Keywords(v)) : Contains(StrLower(msg.content), k)}

\* the keywords one message appends to recent_topics, in vocabulary order
MsgTopicSeq(v, msg) ==
    IF v = "app" /\ msg.role # "user" THEN <<>>
    ELSE SelectSeq2(Keywords(v),
                    [i \in DOMAIN Keywords(v) |->
                        Contains(StrLower(msg.content), Keywords(v)[i])])

\* recent_topics, the list the loop over the window builds
RECURSIVE RecentTopicsSeq(_, _)
RecentTopicsSeq(v, msgs) ==
    IF msgs = <<>> THEN <<>>
    ELSE MsgTopicSeq(v, Head(msgs)) \o RecentTopicsSeq(v, Tail(msgs))

\* set(recent_topics)
RecentTopics(v, msgs) == UNION {MsgTopics(v, msgs[i]) : i \in DOMAIN msgs}

\* the phrases one user message adds to context_terms (backend)
MsgPhrases(msg) ==
    LET words == StrSplit(StrLower(msg.content))
        phrase(i) == Join(SubSeq(words, IF i - 2 > 1 THEN i - 2 ELSE 1,
                                        IF i + 2 < Len(words) THEN i + 2 ELSE Len(words)),
                          <<" ">>)
        at == SelectSeq2([i \in DOMAIN words |-> i],
                         [i \in DOMAIN words |->
                             words[i] \in focus_words /\ Len(phrase(i)) > 5])
    IN  [k \in DOMAIN at |-> phrase(at[k])]

RECURSIVE ContextTerms(_)
ContextTerms(msgs) ==
    IF msgs = <<>> THEN <<>>
    ELSE (IF Head(msgs).role = "user" THEN MsgPhrases(Head(msgs)) ELSE <<>>)
         \o ContextTerms(Tail(msgs))

\* list(set(recent_topics))[:n]: a set's iteration order is not fixed by the
\* language, so any arrangement of any n of its elements can come out
TopicLists(topics, n) ==
    LET k == IF Cardinality(topics) < n THEN Cardinality(topics) ELSE n
    IN  {h \in [1..k -> topics] : \A i, j \in 1..k : i # j => h[i] # h[j]}

\* EnhancedQuery with the hint put in front of the query
EnhancedQuery_HintFirst(v, q, history, unique_topics) ==
    IF history = <<>> \/ unique_topics = <<>> THEN q
    ELSE <<"(","r","e","l","a","t","e","d"," ","t","o",":"," ">> \o Join(unique_topics, <<","," ">>) \o <<")"," ">> \o q

\* the string built once unique_topics is chosen
EnhancedQuery(v, q, history, unique_topics) ==
    IF history = <<>> THEN q
    ELSE IF v = "app"
         THEN IF unique_topics = <<>> THEN q
              ELSE q \o <<" ","(","r","e","l","a","t","e","d"," ","t","o",":"," ">> \o Join(unique_topics, <<","," ">>) \o <<")">>
         ELSE LET context_terms ==
                      ContextTerms(LastN(history, EnhanceWindow(v)))
                  enhanced_parts ==
                      <<q>>
                      \o (IF unique_topics = <<>> THEN <<>>
                          ELSE << <<"(","b","u","i","l","d","i","n","g"," ","o","n"," ","d","i","s","c","u","s","s","i","o","n"," ","o","f",":"," ">>
                                  \o Join(unique_topics, <<","," ">>) \o <<")">> >>)
                      \o (IF context_terms = <<>> THEN <<>>
                          ELSE << <<"(","c","o","n","t","i","n","u","i","n","g"," ","t","o","p","i","c",":"," ">>
                                  \o context_terms[Len(context_terms)] \o <<")">> >>)
              IN  Join(enhanced_parts, <<" ">>)

---------------------------------------------------------------------------
(* EmbeddingGenerator.generate_embedding and PineconeDB.search *)

\* text.replace("\n", " ")
ReplaceNewlines(s) == [i \in DOMAIN s |-> IF s[i] = "\n" THEN " " ELSE s[i]]

\* the cases in which None is returned before the provider is called
EmbeddingInputEmpty(text) ==
    \/ text = <<>>
    \/ StrStrip(text) = <<>>
    \/ StrStrip(ReplaceNewlines(text)) = <<>>

PineconeTopKLimit == 10000
DefaultTopK == 15

\* the matches the index returns for top_k = min(limit, 10000)
PineconeSearch(matches, limit) ==
    Take(matches, IF limit < PineconeTopKLimit THEN limit ELSE PineconeTopKLimit)

---------------------------------------------------------------------------
(* SpaceBiologyRAG._format_context, _format_web_context, _create_prompt *)

NoDocumentsSentinel == [kind |-> "No relevant documents found."]

\* one "Document i" block per hit, in the order received
FormatContext(docs) ==
    IF docs = <<>> THEN <<NoDocumentsSentinel>>
    ELSE [i \in DOMAIN docs |->
             [kind |-> "Document", label |-> i,
              title |-> MetaTitle(docs[i].metadata), score |-> docs[i].score]]

FormatWebContext(web) ==
    [i \in DOMAIN web |->
        [kind |-> "Web Resource", label |-> i, title |-> web[i].title, url |-> web[i].url]]

\* the exception _create_prompt raises on the history window, NoExc when none
RECURSIVE PromptError(_)
PromptError(msgs) ==
    IF msgs = <<>> THEN NoExc
    ELSE IF ~Head(msgs).has_role THEN KeyErrorRole
    ELSE IF ~Head(msgs).has_content THEN KeyErrorContent
    ELSE PromptError(Tail(msgs))

CreatePrompt(v, q, ctx, history) ==
    LET window == LastN(history, PromptWindow(v))
    IN  [query |-> q,
         context |-> ctx,
         conversation_context |->
             [i \in DOMAIN window |->
                 [role |-> IF window[i].role = "user" THEN "Human"
                           ELSE IF v = "app" THEN "Assistant" ELSE "K-OSMOS",
                  content |-> Take(window[i].content, PromptMsgCap(v))]]]

---------------------------------------------------------------------------
(* SpaceBiologyRAG._clean_response_content and _generate_response *)

WordChars == Range(UpperAlpha) \cup Range(LowerAlpha)
             \cup {"0","1","2","3","4","5","6","7","8","9","_"}

\* index of the first e in s at or after i, 0 when there is none
FirstAt(s, e, i) ==
    IF \E j \in i..Len(s) : s[j] = e
    THEN CHOOSE j \in i..Len(s) : s[j] = e /\ \A k \in i..(j - 1) : s[k] # e
    ELSE 0

\* re.sub(r'<[^>]+>', '', content)
RECURSIVE RemoveTags(_)
RemoveTags(s) ==
    IF s = <<>> THEN <<>>
    ELSE IF Head(s) = "<" /\ FirstAt(s, ">", 2) > 2
         THEN RemoveTags(SubSeq(s, FirstAt(s, ">", 2) + 1, Len(s)))
         ELSE <<Head(s)>> \o RemoveTags(Tail(s))

\* length of the run of characters of S at the start of s
RECURSIVE RunLen(_, _)
RunLen(s, S) ==
    IF s = <<>> \/ Head(s) \notin S THEN 0 ELSE 1 + RunLen(Tail(s), S)

\* re.sub(r'</?\w+>', '', content)
RECURSIVE RemoveStrayTags(_)
RemoveStrayTags(s) ==
    IF s = <<>> THEN <<>>
    ELSE LET start == IF Len(s) >= 2 /\ s[2] = "/" THEN 3 ELSE 2
             n == RunLen(SubSeq(s, start, Len(s)), WordChars)
             close == start + n
         IN  IF Head(s) = "<" /\ n >= 1 /\ close <= Len(s) /\ s[close] = ">"
             THEN RemoveStrayTags(SubSeq(s, close + 1, Len(s)))
             ELSE <<Head(s)>> \o RemoveStrayTags(Tail(s))

\* re.sub(r'\n{3,}', '\n\n', content)
RECURSIVE CollapseNewlines(_)
CollapseNewlines(s) ==
    IF s = <<>> THEN <<>>
    ELSE LET n == RunLen(s, {"\n"})
         IN  IF n >= 3 THEN <<"\n", "\n">> \o CollapseNewlines(SubSeq(s, n + 1, Len(s)))
             ELSE IF n >= 1 THEN SubSeq(s, 1, n) \o CollapseNewlines(SubSeq(s, n + 1, Len(s)))
             ELSE <<Head(s)>> \o CollapseNewlines(Tail(s))

\* CleanResponseContent without the final content.strip()
CleanResponseContent_NoStrip(content) ==
    IF content = <<>> THEN content
    ELSE CollapseNewlines(RemoveStrayTags(RemoveTags(content)))

CleanResponseContent(content) ==
    IF content = <<>> THEN content
    ELSE StrStrip(CollapseNewlines(RemoveStrayTags(RemoveTags(content))))

PersonaMarker == <<"K","-","O","S","M","O","S">>
PersonaWindow == 300
\* the first words of the sentence the backend prepends
PersonaPreamble == <<"A","s"," ","K","-","O","S","M","O","S",","," ","y","o","u","r"," ","s","p","a","c","e"," ","r","e","s","e","a","r","c","h"," ","a","s","s","i","s","t","a","n","t">> \o <<"\n", "\n">>

\* the text _generate_response returns when the provider answered
GeneratedText(v, raw) ==
    LET response_text == CleanResponseContent(raw)
    IN  IF v = "backend" /\ ~Contains(Take(response_text, PersonaWindow), PersonaMarker)
        THEN PersonaPreamble \o response_text
        ELSE response_text

\* the text _generate_response returns when the provider call raised
\* (the first words of the literal of each variant)
GenerationApology(v) ==
    IF v = "app" THEN <<"I"," ","a","p","o","l","o","g","i","z","e",","," ","b","u","t"," ","I","'","m"," ","c","u","r","r","e","n","t","l","y"," ","u","n","a","b","l","e">>
    ELSE <<"G","r","e","e","t","i","n","g","s","!"," ","I"," ","a","m"," ","K","-","O","S","M","O","S">>

\* the first words of the response of chat's except branch, then str(e)
ErrorResponse(e) == <<"I"," ","a","p","o","l","o","g","i","z","e",","," ","b","u","t"," ","I"," ","e","n","c","o","u","n","t","e","r","e","d"," ","a","n"," ","e","r","r","o","r",":"," ">> \o e

DisplayCap == 10

---------------------------------------------------------------------------
(* Inputs of chat *)

Q_Empty    == <<>>
Q_Blank    == <<" "," ">>
Q_Bone     == <<"b","o","n","e"," ","d","e","n","s","i","t","y"," ","m","i","c","r","o","g","r","a","v","i","t","y">>
Q_Skeletal == <<"s","k","e","l","e","t","a","l"," ","c","h","a","n","g","e","s"," ","o","n"," ","t","h","e"," ","I","S","S">>
Q_Nasa     == <<"N","A","S","A"," ","a","s","t","r","o","n","a","u","t">>
Q_Cells    == <<"h","o","w"," ","d","o"," ","c","e","l","l","s"," ","a","d","a","p","t">>

ChatQueries == {Q_Empty, Q_Blank, Q_Bone, Q_Skeletal, Q_Nasa, Q_Cells}

H_User        == <<Msg(TRUE, "user", TRUE, <<"E","f","f","e","c","t","s"," ","o","n"," ","b","o","n","e"," ","i","n"," ","s","p","a","c","e">>)>>
H_NoRole      == <<Msg(FALSE, "", TRUE, <<"b","o","n","e">>)>>
H_NoContent   == <<Msg(TRUE, "assistant", FALSE, <<>>)>>

\* None and [] take the same branches (`if not conversation_history`)
ChatHistories == {<<>>, H_User, H_NoRole, H_NoContent}

\* a stored title equal, up to case, to the title of a web source
T_GeneLabLower == <<"s","p","a","c","e"," ","b","i","o","l","o","g","y"," ","r","e","s","e","a","r","c","h"," ","d","a","t","a","b","a","s","e">>

ChatScores == {77, 91}

ChatMetas == {Meta(TRUE, TRUE, T_StudyX), Meta(TRUE, TRUE, T_Bone),
              Meta(TRUE, TRUE, T_GeneLabLower), Meta(TRUE, FALSE, <<>>)}

\* a hit whose metadata holds no title
UntitledHit == Hit(91, Meta(FALSE, TRUE, <<>>))

ChatHits == {Hit(s, m) : s \in ChatScores, m \in ChatMetas} \cup {UntitledHit}

\* the index answers a query with its matches in descending score order
IndexAnswers ==
    {m \in SeqsUpTo(ChatHits, MaxDocs) :
        \A i \in DOMAIN m : i < Len(m) => m[i].score >= m[i + 1].score}

LLM_Plain   == <<" ","<","b",">","o","k","<","/","b",">","\n">>
LLM_Persona == <<"K","-","O","S","M","O","S",":"," ","o","k">>
LLM_Empty   == <<>>

LLMTexts == {LLM_Plain, LLM_Persona, LLM_Empty}

NoChatResult == [success |-> FALSE, response |-> <<>>, sources |-> <<>>,
                 num_sources |-> 0, query |-> <<>>]

---------------------------------------------------------------------------
(* SpaceBiologyRAG.chat, one action per step of the coroutine *)

ChatInit ==
    /\ variant \in {"app", "backend"}
    /\ query \in ChatQueries
    /\ conversation_history \in ChatHistories
    /\ index_matches \in IndexAnswers
    /\ pc = "enhance"
    /\ enhanced_query = <<>>
    /\ query_embedding = "unset"
    /\ documents = <<>>
    /\ web_sources = <<>>
    /\ context = <<>>
    /\ prompt = <<>>
    /\ response = <<>>
    /\ llm_failed = FALSE
    /\ exc = NoExc
    /\ raised = FALSE
    /\ result = NoChatResult
    /\ steps = <<>>

\* where chat goes once search_similar_documents has returned
AfterRetrieval == IF variant = "app" THEN "web" ELSE "context"

\* 1. enhanced_query = self._enhance_query_with_context(query, history)
ChatEnhance ==
    /\ pc = "enhance"
    /\ steps' = Append(steps, "enhance")
    /\ LET window == LastN(conversation_history, EnhanceWindow(variant))
           err == EnhanceError(variant, window)
       IN  IF err # NoExc
           THEN /\ exc' = err
                /\ pc' = "except"
                /\ UNCHANGED enhanced_query
           ELSE /\ \E unique_topics \in TopicLists(RecentTopics(variant, window),
                                                   MaxContextTerms(variant)) :
                       enhanced_query' = EnhancedQuery(variant, query,
                                             conversation_history, unique_topics)
                /\ pc' = "embed"
                /\ UNCHANGED exc
    /\ UNCHANGED <<fsVars, hsVars, unitVars, utilVars>>
    /\ UNCHANGED <<variant, query, conversation_history, index_matches,
                   query_embedding, documents, web_sources, context, prompt,
                   response, llm_failed, raised, result>>

\* ChatEmbed without `if not query_embedding: return []`: the vector store is
\* queried with the None embedding
ChatEmbed_SearchAnyway ==
    /\ pc = "embed"
    /\ \/ /\ EmbeddingInputEmpty(enhanced_query)
          /\ query_embedding' = "None"
          /\ UNCHANGED steps
       \/ /\ ~EmbeddingInputEmpty(enhanced_query)
          /\ steps' = Append(steps, "embedding_call")
          /\ \E provider_ok \in BOOLEAN :
                query_embedding' = IF provider_ok THEN "vector" ELSE "None"
    /\ pc' = "search"
    /\ documents' = <<>>
    /\ UNCHANGED <<fsVars, hsVars, unitVars, utilVars>>
    /\ UNCHANGED <<variant, query, conversation_history, index_matches,
                   enhanced_query, web_sources, context, prompt, response,
                   llm_failed, exc, raised, result>>

\* 2a. search_similar_documents: generate_embedding; None ends the search
ChatEmbed ==
    /\ pc = "embed"
    /\ \/ /\ EmbeddingInputEmpty(enhanced_query)
          /\ query_embedding' = "None"
          /\ pc' = AfterRetrieval
          /\ UNCHANGED steps
       \/ /\ ~EmbeddingInputEmpty(enhanced_query)
          /\ steps' = Append(steps, "embedding_call")
          /\ \E provider_ok \in BOOLEAN :
                IF provider_ok
                THEN query_embedding' = "vector" /\ pc' = "search"
                ELSE query_embedding' = "None" /\ pc' = AfterRetrieval
    /\ documents' = <<>>
    /\ UNCHANGED <<fsVars, hsVars, unitVars, utilVars>>
    /\ UNCHANGED <<variant, query, conversation_history, index_matches,
                   enhanced_query, web_sources, context, prompt, response,
                   llm_failed, exc, raised, result>>

\* 2b. search_similar_documents: vector_db.search; the adapter turns a
\* failed index query into []
ChatSearch ==
    /\ pc = "search"
    /\ steps' = Append(steps, "vector_search")
    /\ \E index_ok \in BOOLEAN :
          documents' = IF index_ok THEN PineconeSearch(index_matches, DefaultTopK)
                       ELSE <<>>
    /\ pc' = AfterRetrieval
    /\ UNCHANGED <<fsVars, hsVars, unitVars, utilVars>>
    /\ UNCHANGED <<variant, query, conversation_history, index_matches,
                   enhanced_query, query_embedding, web_sources, context, prompt,
                   response, llm_failed, exc, raised, result>>

\* 3. web_sources = await self._get_web_sources(query)   (app only)
ChatWebSources ==
    /\ pc = "web"
    /\ steps' = Append(steps, "web_sources")
    /\ web_sources' = GetWebSources(query)
    /\ pc' = "context"
    /\ UNCHANGED <<fsVars, hsVars, unitVars, utilVars>>
    /\ UNCHANGED <<variant, query, conversation_history, index_matches,
                   enhanced_query, query_embedding, documents, context, prompt,
                   response, llm_failed, exc, raised, result>>

\* 4. context = self._format_context(documents), plus the web context
ChatFormatContext ==
    /\ pc = "context"
    /\ steps' = Append(steps, "context")
    /\ context' = FormatContext(documents)
                  \o (IF web_sources # <<>> THEN FormatWebContext(web_sources) ELSE <<>>)
    /\ pc' = "prompt"
    /\ UNCHANGED <<fsVars, hsVars, unitVars, utilVars>>
    /\ UNCHANGED <<variant, query, conversation_history, index_matches,
                   enhanced_query, query_embedding, documents, web_sources, prompt,
                   response, llm_failed, exc, raised, result>>

\* 5. prompt = self._create_prompt(query, context, conversation_history)
ChatCreatePrompt ==
    /\ pc = "prompt"
    /\ steps' = Append(steps, "prompt")
    /\ LET err == PromptError(LastN(conversation_history, PromptWindow(variant)))
       IN  IF err # NoExc
           THEN exc' = err /\ pc' = "except" /\ UNCHANGED prompt
           ELSE /\ prompt' = CreatePrompt(variant, query, context, conversation_history)
                /\ pc' = "generate"
                /\ UNCHANGED exc
    /\ UNCHANGED <<fsVars, hsVars, unitVars, utilVars>>
    /\ UNCHANGED <<variant, query, conversation_history, index_matches,
                   enhanced_query, query_embedding, documents, web_sources, context,
                   response, llm_failed, raised, result>>

\* ChatGenerate calling the model again after a failed call
ChatGenerate_Retry ==
    /\ pc = "generate"
    /\ \/ \E raw \in LLMTexts :
             /\ steps' = steps \o <<"llm_call", "clean">>
             /\ response' = GeneratedText(variant, raw)
             /\ pc' = "sources"
             /\ UNCHANGED llm_failed
       \/ /\ steps' = Append(steps, "llm_call")
          /\ llm_failed' = TRUE
          /\ pc' = "generate"
          /\ UNCHANGED response
    /\ UNCHANGED <<fsVars, hsVars, unitVars, utilVars>>
    /\ UNCHANGED <<variant, query, conversation_history, index_matches,
                   enhanced_query, query_embedding, documents, web_sources, context,
                   prompt, exc, raised, result>>

\* 6. response = await self._generate_response(prompt): one call of the
\* model; its failure is caught there and an apology text is returned
ChatGenerate ==
    /\ pc = "generate"
    /\ \/ \E raw \in LLMTexts :
             /\ steps' = steps \o <<"llm_call", "clean">>
             /\ response' = GeneratedText(variant, raw)
             /\ UNCHANGED llm_failed
       \/ /\ steps' = Append(steps, "llm_call")
          /\ response' = GenerationApology(variant)
          /\ llm_failed' = TRUE
    /\ pc' = "sources"
    /\ UNCHANGED <<fsVars, hsVars, unitVars, utilVars>>
    /\ UNCHANGED <<variant, query, conversation_history, index_matches,
                   enhanced_query, query_embedding, documents, web_sources, context,
                   prompt, exc, raised, result>>

\* the sources chat returns: the first 10 deduplicated documents, the web
\* sources appended, the first 10 of that
ReturnedSources(v, formatted, web) ==
    IF v = "app"
    THEN Take(Take(formatted, DisplayCap) \o web, DisplayCap)
    ELSE Take(formatted, DisplayCap)

\* 7./8. sources = self._format_sources(documents)[:10], web sources added,
\* and the return of the success dict
ChatReturn ==
    /\ pc = "sources"
    /\ LET r == FormatSources(documents)
       IN  IF r.raised
           THEN /\ steps' = Append(steps, "format_sources")
                /\ exc' = TitleLowerError
                /\ pc' = "except"
                /\ UNCHANGED result
           ELSE /\ steps' = steps \o <<"format_sources", "return">>
                /\ result' = [success |-> TRUE,
                              response |-> response,
                              sources |-> ReturnedSources(variant, r.sources, web_sources),
                              num_sources |-> Len(ReturnedSources(variant, r.sources, web_sources)),
                              query |-> query]
                /\ pc' = "returned"
                /\ UNCHANGED exc
    /\ UNCHANGED <<fsVars, hsVars, unitVars, utilVars>>
    /\ UNCHANGED <<variant, query, conversation_history, index_matches,
                   enhanced_query, query_embedding, documents, web_sources, context,
                   prompt, response, llm_failed, raised>>

\* chat without its except branch: the exception leaves chat
ChatExcept_Reraise ==
    /\ pc = "except"
    /\ steps' = Append(steps, "return")
    /\ raised' = TRUE
    /\ pc' = "returned"
    /\ UNCHANGED <<fsVars, hsVars, unitVars, utilVars>>
    /\ UNCHANGED <<variant, query, conversation_history, index_matches,
                   enhanced_query, query_embedding, documents, web_sources, context,
                   prompt, response, llm_failed, exc, result>>

\* except Exception as e: the structured error result
ChatExcept ==
    /\ pc = "except"
    /\ steps' = Append(steps, "return")
    /\ result' = [success |-> FALSE,
                  response |-> ErrorResponse(exc),
                  sources |-> <<>>,
                  num_sources |-> 0,
                  query |-> query]
    /\ pc' = "returned"
    /\ UNCHANGED <<fsVars, hsVars, unitVars, utilVars>>
    /\ UNCHANGED <<variant, query, conversation_history, index_matches,
                   enhanced_query, query_embedding, documents, web_sources, context,
                   prompt, response, llm_failed, exc, raised>>

ChatNext ==
    \/ ChatEnhance
    \/ ChatEmbed
    \/ ChatSearch
    \/ ChatWebSources
    \/ ChatFormatContext
    \/ ChatCreatePrompt
    \/ ChatGenerate
    \/ ChatReturn
    \/ ChatExcept

---------------------------------------------------------------------------
(* VectorDBManager.hybrid_search *)

\* DatabaseConfig's collection names
CollectionLists == {<<"publications", "datasets", "taskbook">>,
                    <<"publications", "datasets">>,
                    <<"datasets">>,
                    <<>>}

\* SearchResult as db.search returns it; hybrid_search adds the collection tag
HsHit(c, j, s) == [id |-> <<c, j>>, score |-> s, collection |-> ""]

\* what db.search(collection, limit=limit) can return: at most `limit` hits
\* in descending score order
SearchAnswers(c, limit) ==
    LET n == IF limit < MaxPerCollection THEN limit ELSE MaxPerCollection
    IN  {[j \in DOMAIN ss |-> HsHit(c, j, ss[j])] :
            ss \in {x \in SeqsUpTo(Scores, n) :
                       \A i \in DOMAIN x : i < Len(x) => x[i] >= x[i + 1]}}

\* result.metadata['collection'] = collection, for each result
TagResults(results, c) == [j \in DOMAIN results |-> [results[j] EXCEPT !.collection = c]]

\* HybridMerge truncating before it sorts
HybridMerge_TruncateFirst(results, limit) == SortByScoreDesc(Take(results, limit))

\* all_results.sort(key=score, reverse=True); return all_results[:limit]
HybridMerge(results, limit) == Take(SortByScoreDesc(results), limit)

HsInit ==
    /\ hs_collections \in CollectionLists
    /\ hs_limit \in 1..MaxLimit
    /\ hs_pc = "loop"
    /\ all_results = <<>>
    /\ hs_returned = <<>>
    /\ hs_result = <<>>
    /\ hs_raised = FALSE

\* HsSearch without the try/except inside the loop: a failed search ends the call
HsSearch_FailFast ==
    /\ hs_pc = "loop"
    /\ Len(hs_returned) < Len(hs_collections)
    /\ LET collection == hs_collections[Len(hs_returned) + 1]
       IN  \/ \E results \in SearchAnswers(collection, hs_limit) :
                 /\ all_results' = all_results \o TagResults(results, collection)
                 /\ hs_returned' = Append(hs_returned,
                        [collection |-> collection, ok |-> TRUE, results |-> results])
                 /\ UNCHANGED <<hs_pc, hs_raised>>
           \/ /\ all_results' = all_results
              /\ hs_returned' = Append(hs_returned,
                     [collection |-> collection, ok |-> FALSE, results |-> <<>>])
              /\ hs_raised' = TRUE
              /\ hs_pc' = "done"
    /\ UNCHANGED <<fsVars, chatVars, unitVars, utilVars>>
    /\ UNCHANGED <<hs_collections, hs_limit, hs_result>>

\* one iteration of `for collection in collections`: the search, the tagging
\* and the extend, or the except branch that only logs
HsSearch ==
    /\ hs_pc = "loop"
    /\ Len(hs_returned) < Len(hs_collections)
    /\ LET collection == hs_collections[Len(hs_returned) + 1]
       IN  \/ \E results \in SearchAnswers(collection, hs_limit) :
                 /\ all_results' = all_results \o TagResults(results, collection)
                 /\ hs_returned' = Append(hs_returned,
                        [collection |-> collection, ok |-> TRUE, results |-> results])
           \/ /\ all_results' = all_results
              /\ hs_returned' = Append(hs_returned,
                     [collection |-> collection, ok |-> FALSE, results |-> <<>>])
    /\ UNCHANGED <<fsVars, chatVars, unitVars, utilVars>>
    /\ UNCHANGED <<hs_collections, hs_limit, hs_pc, hs_result, hs_raised>>

\* after the loop: sort, truncate, return
HsMerge ==
    /\ hs_pc = "loop"
    /\ Len(hs_returned) = Len(hs_collections)
    /\ hs_result' = HybridMerge(all_results, hs_limit)
    /\ hs_pc' = "done"
    /\ UNCHANGED <<fsVars, chatVars, unitVars, utilVars>>
    /\ UNCHANGED <<hs_collections, hs_limit, all_results, hs_returned, hs_raised>>

HsNext == HsSearch \/ HsMerge

---------------------------------------------------------------------------
(* SpaceBiologyRAG._enhance_query_with_context called on its own, twice with
   the same arguments, in the same interpreter run or in two runs *)

\* longest history drawn freely from EnMessages
MaxHistory == 2

M_UserBone   == H_User[1]
M_UserPlant  == Msg(TRUE, "user", TRUE, <<"P","l","a","n","t"," ","g","r","o","w","t","h">>)
M_AsstMuscle == Msg(TRUE, "assistant", TRUE, <<"m","u","s","c","l","e">>)
M_NoRole     == H_NoRole[1]
M_Filler     == Msg(TRUE, "user", TRUE, <<"o","k">>)
M_OldRadiation == Msg(TRUE, "user", TRUE, <<"r","a","d","i","a","t","i","o","n">>)

EnMessages == {M_UserBone, M_UserPlant, M_AsstMuscle, M_NoRole}

\* histories longer than the window: the first message is outside
\* conversation_history[-6:] in both, outside conversation_history[-8:] in
\* the second only
H_Old7 == <<M_OldRadiation, M_Filler, M_Filler, M_Filler, M_Filler, M_Filler, M_UserBone>>
H_Old9 == <<M_OldRadiation, M_Filler, M_Filler, M_Filler, M_Filler, M_Filler, M_Filler,
            M_Filler, M_UserBone>>

EnHistories == SeqsUpTo(EnMessages, MaxHistory) \cup {H_Old7, H_Old9}

EnQueries == {Q_Empty, Q_Bone}

\* the first elements of list(set(recent_topics)) an interpreter run can
\* yield for these arguments: str hashes are salted per run, so the order is
\* fixed within a run and differs between runs
SetOrders(v, history) ==
    TopicLists(RecentTopics(v, LastN(history, EnhanceWindow(v))), MaxContextTerms(v))

\* one call: what it raised or returned, and the terms it put in the hint
EnhanceCall(v, q, history, set_order) ==
    LET err == EnhanceError(v, LastN(history, EnhanceWindow(v)))
    IN  IF err # NoExc
        THEN [raised |-> TRUE, exc |-> err, value |-> <<>>, topics |-> <<>>]
        ELSE [raised |-> FALSE, exc |-> NoExc,
              value |-> EnhancedQuery(v, q, history, set_order),
              topics |-> IF history = <<>> THEN <<>> ELSE set_order]

EnInit ==
    /\ en_variant \in {"app", "backend"}
    /\ en_query \in EnQueries
    /\ en_history \in EnHistories
    /\ en_set_order \in SetOrders(en_variant, en_history)
    /\ en_runs = 1
    /\ en_outputs = <<>>

\* self._enhance_query_with_context(query, conversation_history)
EnCall ==
    /\ Len(en_outputs) < 2
    /\ en_outputs' = Append(en_outputs,
                            EnhanceCall(en_variant, en_query, en_history, en_set_order))
    /\ UNCHANGED <<en_variant, en_query, en_history, en_set_order, en_runs>>
    /\ UNCHANGED othersOfEn

\* the program is started again between the two calls
EnRestart ==
    /\ Len(en_outputs) = 1
    /\ en_runs = 1
    /\ en_runs' = 2
    /\ en_set_order' \in SetOrders(en_variant, en_history)
    /\ UNCHANGED <<en_variant, en_query, en_history, en_outputs>>
    /\ UNCHANGED othersOfEn

EnNext == EnCall \/ EnRestart

---------------------------------------------------------------------------
(* EmbeddingGenerator.generate_batch_embeddings, one action per step of the
   coroutine *)

\* most texts handed to generate_batch_embeddings
MaxTexts == 3

\* largest batch_size it is called with
MaxBatchSize == 2

Txt_Cell  == <<"c","e","l","l">>
Txt_Blank == <<" ","\n">>

GbTexts == {T_Bone, Txt_Cell, Txt_Blank}

\* the null slot of the list returned
NoEmbedding == [null |-> TRUE]

\* the vector the provider computes for a content
Embedding(content) == [vec_of |-> content]

\* cleaned_text = text.replace("\n", " ").strip()
CleanedText(text) == StrStrip(ReplaceNewlines(text))

Min(a, b) == IF a < b THEN a ELSE b

GbInit ==
    /\ gb_model_type \in {"gemini", "sentence_transformers"}
    /\ gb_texts \in SeqsUpTo(GbTexts, MaxTexts)
    /\ gb_batch_size \in 1..MaxBatchSize
    /\ gb_i = 0
    /\ gb_batch = <<>>
    /\ gb_pos = 1
    /\ gb_batch_embeddings = <<>>
    /\ gb_embeddings = <<>>
    /\ gb_pc = "outer"
    /\ gb_log = <<>>
    /\ gb_in_flight = 0
    /\ gb_failed = {}
    /\ gb_result = <<>>

\* for i in range(0, len(texts), batch_size): exhausted, return embeddings
GbReturn ==
    /\ gb_pc = "outer"
    /\ gb_i >= Len(gb_texts)
    /\ gb_result' = gb_embeddings
    /\ gb_pc' = "done"
    /\ UNCHANGED <<gb_model_type, gb_texts, gb_batch_size, gb_i, gb_batch, gb_pos,
                   gb_batch_embeddings, gb_embeddings, gb_log, gb_in_flight, gb_failed>>
    /\ UNCHANGED othersOfGb

\* batch = texts[i:i + batch_size]; enter _generate_gemini_batch_embeddings
GbTakeBatch ==
    /\ gb_pc = "outer"
    /\ gb_i < Len(gb_texts)
    /\ gb_model_type = "gemini"
    /\ gb_batch' = SubSeq(gb_texts, gb_i + 1, Min(gb_i + gb_batch_size, Len(gb_texts)))
    /\ gb_pos' = 1
    /\ gb_batch_embeddings' = <<>>
    /\ gb_pc' = "inner"
    /\ UNCHANGED <<gb_model_type, gb_texts, gb_batch_size, gb_i, gb_embeddings,
                   gb_log, gb_in_flight, gb_failed, gb_result>>
    /\ UNCHANGED othersOfGb

\* batch = texts[i:i + batch_size]; _generate_sentence_transformer_batch_embeddings:
\* one encode call for the whole batch, [None] * len(texts) when it raises;
\* embeddings.extend, no delay
GbEncodeBatch ==
    /\ gb_pc = "outer"
    /\ gb_i < Len(gb_texts)
    /\ gb_model_type = "sentence_transformers"
    /\ LET batch == SubSeq(gb_texts, gb_i + 1, Min(gb_i + gb_batch_size, Len(gb_texts)))
       IN  /\ gb_batch' = batch
           /\ \E encode_ok \in BOOLEAN :
                 /\ gb_batch_embeddings' =
                        [k \in DOMAIN batch |-> IF encode_ok THEN Embedding(batch[k])
                                                ELSE NoEmbedding]
                 /\ gb_failed' = IF encode_ok THEN gb_failed
                                 ELSE gb_failed \cup {gb_i + k : k \in DOMAIN batch}
           /\ gb_embeddings' = gb_embeddings \o gb_batch_embeddings'
    /\ gb_log' = Append(gb_log, "encode")
    /\ gb_i' = gb_i + gb_batch_size
    /\ UNCHANGED <<gb_model_type, gb_texts, gb_batch_size, gb_pos, gb_pc,
                   gb_in_flight, gb_result>>
    /\ UNCHANGED othersOfGb

\* for text in texts: exhausted, return to generate_batch_embeddings, which
\* extends embeddings
GbInnerDone ==
    /\ gb_pc = "inner"
    /\ gb_pos > Len(gb_batch)
    /\ gb_embeddings' = gb_embeddings \o gb_batch_embeddings
    /\ gb_pc' = "outer_sleep"
    /\ UNCHANGED <<gb_model_type, gb_texts, gb_batch_size, gb_i, gb_batch, gb_pos,
                   gb_batch_embeddings, gb_log, gb_in_flight, gb_failed, gb_result>>
    /\ UNCHANGED othersOfGb

\* _generate_gemini_embedding: `if not cleaned_text: return None`
GbBlankText ==
    /\ gb_pc = "inner"
    /\ gb_pos <= Len(gb_batch)
    /\ CleanedText(gb_batch[gb_pos]) = <<>>
    /\ gb_batch_embeddings' = Append(gb_batch_embeddings, NoEmbedding)
    /\ gb_pc' = "inner_sleep"
    /\ UNCHANGED <<gb_model_type, gb_texts, gb_batch_size, gb_i, gb_batch, gb_pos,
                   gb_embeddings, gb_log, gb_in_flight, gb_failed, gb_result>>
    /\ UNCHANGED othersOfGb

\* _generate_gemini_embedding: genai.embed_content(...) is entered
GbProviderCall ==
    /\ gb_pc = "inner"
    /\ gb_pos <= Len(gb_batch)
    /\ CleanedText(gb_batch[gb_pos]) # <<>>
    /\ gb_in_flight' = gb_in_flight + 1
    /\ gb_log' = Append(gb_log, "call")
    /\ gb_pc' = "in_call"
    /\ UNCHANGED <<gb_model_type, gb_texts, gb_batch_size, gb_i, gb_batch, gb_pos,
                   gb_batch_embeddings, gb_embeddings, gb_failed, gb_result>>
    /\ UNCHANGED othersOfGb

\* genai.embed_content returns result['embedding'], or raises and
\* _generate_gemini_embedding returns None; embeddings.append(embedding)
GbProviderReturn ==
    /\ gb_pc = "in_call"
    /\ gb_in_flight' = gb_in_flight - 1
    /\ \E provider_ok \in BOOLEAN :
          IF provider_ok
          THEN /\ gb_batch_embeddings' =
                      Append(gb_batch_embeddings, Embedding(CleanedText(gb_batch[gb_pos])))
               /\ UNCHANGED gb_failed
          ELSE /\ gb_batch_embeddings' = Append(gb_batch_embeddings, NoEmbedding)
               /\ gb_failed' = gb_failed \cup {gb_i + gb_pos}
    /\ gb_pc' = "inner_sleep"
    /\ UNCHANGED <<gb_model_type, gb_texts, gb_batch_size, gb_i, gb_batch, gb_pos,
                   gb_embeddings, gb_log, gb_result>>
    /\ UNCHANGED othersOfGb

\* GbInnerSleep without the delay: the loop goes straight to the next text
GbInnerSleep_NoDelay ==
    /\ gb_pc = "inner_sleep"
    /\ gb_pos' = gb_pos + 1
    /\ gb_pc' = "inner"
    /\ UNCHANGED <<gb_model_type, gb_texts, gb_batch_size, gb_i, gb_batch,
                   gb_batch_embeddings, gb_embeddings, gb_log, gb_in_flight, gb_failed,
                   gb_result>>
    /\ UNCHANGED othersOfGb

\* await asyncio.sleep(4.0) after each text of the batch
GbInnerSleep ==
    /\ gb_pc = "inner_sleep"
    /\ gb_log' = Append(gb_log, "sleep")
    /\ gb_pos' = gb_pos + 1
    /\ gb_pc' = "inner"
    /\ UNCHANGED <<gb_model_type, gb_texts, gb_batch_size, gb_i, gb_batch,
                   gb_batch_embeddings, gb_embeddings, gb_in_flight, gb_failed,
                   gb_result>>
    /\ UNCHANGED othersOfGb

\* await asyncio.sleep(4.0) after each batch (Gemini only)
GbOuterSleep ==
    /\ gb_pc = "outer_sleep"
    /\ gb_log' = Append(gb_log, "sleep")
    /\ gb_i' = gb_i + gb_batch_size
    /\ gb_pc' = "outer"
    /\ UNCHANGED <<gb_model_type, gb_texts, gb_batch_size, gb_batch, gb_pos,
                   gb_batch_embeddings, gb_embeddings, gb_in_flight, gb_failed,
                   gb_result>>
    /\ UNCHANGED othersOfGb

GbNext ==
    \/ GbReturn
    \/ GbTakeBatch
    \/ GbEncodeBatch
    \/ GbInnerDone
    \/ GbBlankText
    \/ GbProviderCall
    \/ GbProviderReturn
    \/ GbInnerSleep
    \/ GbOuterSleep

---------------------------------------------------------------------------
(* PineconeDB._prepare_metadata *)

\* Python values a document field can hold
PyNone == [kind |-> "none"]
PyStr(s) == [kind |-> "str", s |-> s]
PyInt(n) == [kind |-> "int", n |-> n]
PyList(items) == [kind |-> "list", items |-> items]

Digits == <<"0","1","2","3","4","5","6","7","8","9">>

\* str(n) for n >= 0
RECURSIVE IntToStr(_)
IntToStr(n) ==
    IF n < 10 THEN <<Digits[n + 1]>>
    ELSE IntToStr(n \div 10) \o <<Digits[(n % 10) + 1]>>

\* str(value) for a scalar
Str(value) ==
    IF value.kind = "str" THEN value.s
    ELSE IF value.kind = "int" THEN IntToStr(value.n)
    ELSE <<"N","o","n","e">>

MetadataCap == 1000
MetadataListCap == 5

allowed_fields == {"id", "title", "content", "source_type", "url", "journal",
                   "organism", "tissue", "mission", "experiment_type",
                   "publication_date"}

\* ', '.join(str(v) for v in value[:5]) for a list or tuple, str(value) otherwise
FlattenValue(value) ==
    IF value.kind = "list"
    THEN LET head == Take(value.items, MetadataListCap)
         IN  Join([i \in DOMAIN head |-> Str(head[i])], <<","," ">>)
    ELSE Str(value)

\* if len(value) > 1000: value = value[:1000] + "..."
TruncateValue(s) ==
    IF Len(s) > MetadataCap THEN SubSeq(s, 1, MetadataCap) \o <<".",".",".">> ELSE s

\* a document is a dict: a function from its keys to Python values
PrepareMetadata(doc) ==
    [field \in {f \in allowed_fields \cap DOMAIN doc : doc[f] # PyNone} |->
        PyStr(TruncateValue(FlattenValue(doc[field])))]

Repeat(c, n) == [i \in 1..n |-> c]

V_Short   == PyStr(<<"I","S","S">>)
V_AtCap   == PyStr(Repeat("x", MetadataCap))
V_OverCap == PyStr(Repeat("x", MetadataCap + 1))
V_Int     == PyInt(2024)
V_List6   == PyList(<<PyStr(<<"a">>), PyStr(<<"b">>), PyStr(<<"c">>), PyStr(<<"d">>),
                      PyStr(<<"e">>), PyStr(<<"f">>)>>)
V_List2   == PyList(<<PyStr(<<"m","o","u","s","e">>), PyInt(7)>>)

PmValues == {PyNone, V_Short, V_AtCap, V_OverCap, V_Int, V_List6, V_List2}

\* keys of the documents tried: two uploaded fields and one that is not
PmFields == {"title", "organism", "authors"}

PmDocs == UNION {[keys -> PmValues] : keys \in SUBSET PmFields}

PmInit ==
    /\ pm_doc \in PmDocs
    /\ pm_metadata = <<>>
    /\ pm_pc = "call"

PmCall ==
    /\ pm_pc = "call"
    /\ pm_metadata' = PrepareMetadata(pm_doc)
    /\ pm_pc' = "done"
    /\ UNCHANGED pm_doc
    /\ UNCHANGED othersOfPm

PmNext == PmCall

---------------------------------------------------------------------------
(* The Pinecone index behind PineconeDB, and PineconeDB.insert_documents *)

Namespaces == {"publications", "datasets"}

\* str(doc['id'])
VectorId(doc) == Str(doc["id"])

Vector(doc) == [id |-> VectorId(doc), values |-> doc["embedding"],
                metadata |-> PrepareMetadata(doc)]

\* a vector the index holds before the call
StoredDoc == ("id" :> PyInt(1)) @@ ("embedding" :> PyList(<<PyInt(9)>>))
             @@ ("title" :> PyStr(T_StudyX))

\* index.upsert(vectors=batch, namespace=ns): vectors with a known id are
\* replaced, the others added
Upsert(store, ns, batch) ==
    [store EXCEPT ![ns] =
        {v \in @ : \A k \in DOMAIN batch : batch[k].id # v.id} \cup Range(batch)]

\* most documents of arbitrary kind at the head of the list inserted
MaxInsertHead == 2

\* batch_size = 100  # Free tier limit
InsertBatchSize == 100

DocKinds == {"ok", "no_embedding_key", "embedding_none", "embedding_empty", "no_id"}

\* the document at position i of the list, with i as its id
DocOf(i, kind) ==
    LET base == ("title" :> V_Short)
        id == ("id" :> PyInt(i))
        emb == ("embedding" :> PyList(<<PyInt(i)>>))
    IN  CASE kind = "ok" -> base @@ id @@ emb
          [] kind = "no_embedding_key" -> base @@ id
          [] kind = "embedding_none" -> base @@ id @@ ("embedding" :> PyNone)
          [] kind = "embedding_empty" -> base @@ id @@ ("embedding" :> PyList(<<>>))
          [] kind = "no_id" -> base @@ emb

\* lists of documents: a head of arbitrary documents followed by complete ones
InsLists ==
    {[i \in 1..(Len(head) + bulk) |->
          DocOf(i, IF i <= Len(head) THEN head[i] ELSE "ok")] :
        head \in SeqsUpTo(DocKinds, MaxInsertHead),
        bulk \in {0, InsertBatchSize, 2 * InsertBatchSize}}

\* HasEmbedding testing the key only
HasEmbedding_KeyOnly(doc) == "embedding" \in DOMAIN doc

\* not ('embedding' not in doc or not doc['embedding'])
HasEmbedding(doc) ==
    /\ "embedding" \in DOMAIN doc
    /\ doc["embedding"] # PyNone
    /\ doc["embedding"] # PyList(<<>>)

InsInit ==
    /\ index_store \in {[ns \in Namespaces |-> {}],
                        [ns \in Namespaces |-> {Vector(StoredDoc)}]}
    /\ ins_collection \in Namespaces
    /\ ins_documents \in InsLists
    /\ ins_vectors = <<>>
    /\ ins_i = 0
    /\ ins_pc = "collect"
    /\ ins_log = <<>>
    /\ ins_result = "unset"

\* for doc in documents: skip the documents without an embedding, build the
\* vectors; str(doc['id']) raises KeyError for a document without id, which
\* the except branch turns into `return False`
InsCollect ==
    /\ ins_pc = "collect"
    /\ LET kept == SelectSeq(ins_documents, HasEmbedding)
       IN  IF \E k \in DOMAIN kept : "id" \notin DOMAIN kept[k]
           THEN /\ ins_result' = "False"
                /\ ins_pc' = "done"
                /\ ins_log' = Append(ins_log, [event |-> "KeyError"])
                /\ UNCHANGED ins_vectors
           ELSE /\ ins_vectors' = [k \in DOMAIN kept |-> Vector(kept[k])]
                /\ ins_pc' = "batch"
                /\ UNCHANGED <<ins_result, ins_log>>
    /\ UNCHANGED <<index_store, ins_collection, ins_documents, ins_i>>
    /\ UNCHANGED othersOfIns

\* for i in range(0, len(vectors), batch_size): index.upsert(batch), then
\* asyncio.sleep(0.2) unless it was the last batch; an upsert that raises ends
\* the call with `return False`
InsUpsert ==
    /\ ins_pc = "batch"
    /\ ins_i < Len(ins_vectors)
    /\ LET batch == SubSeq(ins_vectors, ins_i + 1,
                           Min(ins_i + InsertBatchSize, Len(ins_vectors)))
           ids == [k \in DOMAIN batch |-> batch[k].id]
       IN  \E upsert_ok \in BOOLEAN :
              IF upsert_ok
              THEN /\ index_store' = Upsert(index_store, ins_collection, batch)
                   /\ ins_log' = ins_log
                         \o <<[event |-> "upsert", namespace |-> ins_collection, ids |-> ids]>>
                         \o (IF ins_i + InsertBatchSize < Len(ins_vectors)
                             THEN <<[event |-> "sleep"]>> ELSE <<>>)
                   /\ ins_i' = ins_i + InsertBatchSize
                   /\ UNCHANGED <<ins_pc, ins_result>>
              ELSE /\ ins_log' = Append(ins_log, [event |-> "upsert_raised"])
                   /\ ins_result' = "False"
                   /\ ins_pc' = "done"
                   /\ UNCHANGED <<index_store, ins_i>>
    /\ UNCHANGED <<ins_collection, ins_documents, ins_vectors>>
    /\ UNCHANGED othersOfIns

\* return True
InsReturn ==
    /\ ins_pc = "batch"
    /\ ins_i >= Len(ins_vectors)
    /\ ins_result' = "True"
    /\ ins_pc' = "done"
    /\ UNCHANGED <<index_store, ins_collection, ins_documents, ins_vectors, ins_i, ins_log>>
    /\ UNCHANGED othersOfIns

InsNext == InsCollect \/ InsUpsert \/ InsReturn

---------------------------------------------------------------------------
(* PineconeDB.create_collection, delete_collection, list_collections and
   BaseVectorDB.health_check, called in any order on one index *)

\* most calls made in a row
MaxCalls == 3

\* what one call did: the store call it made raised or not, what it
\* returned, the index before and after
Call(op, name, store_raised, ret, before, after) ==
    [op |-> op, name |-> name, store_raised |-> store_raised, ret |-> ret,
     before |-> before, after |-> after]

AdmInit ==
    /\ index_store \in [Namespaces -> {{}, {Vector(StoredDoc)}}]
    /\ adm_calls = <<>>

\* create_collection: nothing is sent to the index, the namespace appears on
\* the first insert
AdmCreate ==
    /\ Len(adm_calls) < MaxCalls
    /\ \E name \in Namespaces :
          adm_calls' = Append(adm_calls,
                          Call("create_collection", name, FALSE, TRUE, index_store, index_store))
    /\ UNCHANGED insVars
    /\ UNCHANGED othersOfAdm

\* AdmDelete with delete_all applied to the whole index
AdmDelete_WholeIndex ==
    /\ Len(adm_calls) < MaxCalls
    /\ \E name \in Namespaces, delete_ok \in BOOLEAN :
          LET after == IF delete_ok THEN [ns \in Namespaces |-> {}] ELSE index_store
          IN  /\ index_store' = after
              /\ adm_calls' = Append(adm_calls,
                     Call("delete_collection", name, ~delete_ok, delete_ok, index_store, after))
    /\ UNCHANGED <<ins_collection, ins_documents, ins_vectors, ins_i, ins_pc, ins_log,
                   ins_result>>
    /\ UNCHANGED othersOfAdm

\* delete_collection: index.delete(delete_all=True, namespace=name); True
\* when the call returns, False when it raises
AdmDelete ==
    /\ Len(adm_calls) < MaxCalls
    /\ \E name \in Namespaces, delete_ok \in BOOLEAN :
          LET after == IF delete_ok THEN [index_store EXCEPT ![name] = {}] ELSE index_store
          IN  /\ index_store' = after
              /\ adm_calls' = Append(adm_calls,
                     Call("delete_collection", name, ~delete_ok, delete_ok, index_store, after))
    /\ UNCHANGED <<ins_collection, ins_documents, ins_vectors, ins_i, ins_pc, ins_log,
                   ins_result>>
    /\ UNCHANGED othersOfAdm

\* list_collections: the namespaces of index.describe_index_stats(), [] when
\* the call raises
ListCollections(store, stats_ok) ==
    [kind |-> "list",
     items |-> IF stats_ok THEN {ns \in Namespaces : store[ns] # {}} ELSE {}]

\* health_check: isinstance(await self.list_collections(), list)
HealthCheckResult(collections) == collections.kind = "list"

AdmHealthCheck ==
    /\ Len(adm_calls) < MaxCalls
    /\ \E stats_ok \in BOOLEAN :
          adm_calls' = Append(adm_calls,
              Call("health_check", "", ~stats_ok,
                   HealthCheckResult(ListCollections(index_store, stats_ok)),
                   index_store, index_store))
    /\ UNCHANGED insVars
    /\ UNCHANGED othersOfAdm

AdmNext == AdmCreate \/ AdmDelete \/ AdmHealthCheck

---------------------------------------------------------------------------
(* SpaceBiologyRAG._clean_response_content on arbitrary text *)

\* longest text handed to _clean_response_content on its own
MaxContentLen == 5

CleanChars == {"<", ">", "/", "b", " ", "\n"}

ClInit ==
    /\ cl_content \in SeqsUpTo(CleanChars, MaxContentLen)
    /\ cl_once = <<>>
    /\ cl_twice = <<>>
    /\ cl_pc = "call"

\* content = self._clean_response_content(content)
ClCall ==
    /\ cl_pc = "call"
    /\ cl_once' = CleanResponseContent(cl_content)
    /\ cl_pc' = "again"
    /\ UNCHANGED <<cl_content, cl_twice>>
    /\ UNCHANGED othersOfCl

\* the same call on the text the first call returned
ClCallAgain ==
    /\ cl_pc = "again"
    /\ cl_twice' = CleanResponseContent(cl_once)
    /\ cl_pc' = "done"
    /\ UNCHANGED <<cl_content, cl_once>>
    /\ UNCHANGED othersOfCl

ClNext == ClCall \/ ClCallAgain

---------------------------------------------------------------------------
(* chunk_text (src/utils/text_processing.py) *)

\* longest text handed to chunk_text
MaxTextLen == 7

\* largest chunk_size
MaxChunkSize == 6

\* loop iterations followed before the run is given up as not ending
MaxIterations == 10

\* a slice bound as Python reads it: negative counts from the end, and the
\* result is clamped to 0..len
SliceBound(i, len) ==
    LET j == IF i < 0 THEN i + len ELSE i
    IN  IF j < 0 THEN 0 ELSE IF j > len THEN len ELSE j

\* text[a:b], with 0-based half-open bounds
Slice(s, a, b) == SubSeq(s, SliceBound(a, Len(s)) + 1, SliceBound(b, Len(s)))

\* text.rfind(' ', a, b): the highest 0-based index in text[a:b] of a space,
\* -1 when there is none
RFindSpace(s, a, b) ==
    LET lo == SliceBound(a, Len(s))
        hi == SliceBound(b, Len(s))
        found == {i \in lo..(hi - 1) : s[i + 1] = " "}
    IN  IF found = {} THEN -1 ELSE CHOOSE i \in found : \A j \in found : j <= i

\* end = start + chunk_size, moved back to the last space of the window
ChunkEnd(text, start, chunk_size) ==
    LET end == start + chunk_size
        space_pos == RFindSpace(text, start, end)
    IN  IF end < Len(text) /\ space_pos > start THEN space_pos ELSE end

ChunkTexts == SeqsUpTo({"a", " "}, MaxTextLen)

CtInit ==
    /\ ct_text \in ChunkTexts
    /\ ct_chunk_size \in 1..MaxChunkSize
    /\ ct_overlap \in 0..(ct_chunk_size - 1)
    /\ ct_start = 0
    /\ ct_chunks = <<>>
    /\ ct_windows = <<>>
    /\ ct_starts = <<>>
    /\ ct_pc = "call"

\* if not text or len(text) <= chunk_size: return [text] if text else []
CtEntry ==
    /\ ct_pc = "call"
    /\ IF ct_text = <<>> \/ Len(ct_text) <= ct_chunk_size
       THEN /\ ct_chunks' = IF ct_text = <<>> THEN <<>> ELSE <<ct_text>>
            /\ ct_pc' = "done"
       ELSE /\ ct_chunks' = <<>>
            /\ ct_pc' = "loop"
    /\ ct_start' = 0
    /\ UNCHANGED <<ct_text, ct_chunk_size, ct_overlap, ct_windows, ct_starts>>
    /\ UNCHANGED othersOfCt

\* one iteration of `while start < len(text)`
CtIteration ==
    /\ ct_pc = "loop"
    /\ ct_start < Len(ct_text)
    /\ Len(ct_starts) < MaxIterations
    /\ LET end == ChunkEnd(ct_text, ct_start, ct_chunk_size)
           chunk == StrStrip(Slice(ct_text, ct_start, end))
       IN  /\ ct_starts' = Append(ct_starts, ct_start)
           /\ IF chunk # <<>>
              THEN /\ ct_chunks' = Append(ct_chunks, chunk)
                   /\ ct_windows' = Append(ct_windows,
                                           [first |-> SliceBound(ct_start, Len(ct_text)),
                                            end |-> SliceBound(end, Len(ct_text))])
              ELSE UNCHANGED <<ct_chunks, ct_windows>>
           /\ ct_start' = end - ct_overlap
           /\ ct_pc' = IF end - ct_overlap >= Len(ct_text) THEN "done" ELSE "loop"
    /\ UNCHANGED <<ct_text, ct_chunk_size, ct_overlap>>
    /\ UNCHANGED othersOfCt

CtNext == CtEntry \/ CtIteration

---------------------------------------------------------------------------
(* EmbeddingCache (src/rag_system/embeddings.py): get and put run by two
   threads.  The class holds no lock, so the threads interleave between the
   statements of get, put and _evict_least_used *)

\* largest max_size
MaxCacheSize == 2

\* get and put calls in one run
MaxOps == 3

Threads == {1, 2}

Hashes == {"h1", "h2", "h3"}

AtRest == [pc |-> "rest", text_hash |-> "h1", least |-> "h1"]

\* the keys of a dict given by its items
KeysOf(items) == {items[i].key : i \in DOMAIN items}

\* d.get(k, 0)
CountOf(items, k) ==
    IF k \in KeysOf(items)
    THEN items[CHOOSE i \in DOMAIN items : items[i].key = k].count
    ELSE 0

\* d[k] = n: a key already there keeps its place, a new key goes last
DictSet(items, k, n) ==
    IF k \in KeysOf(items)
    THEN [i \in DOMAIN items |-> IF items[i].key = k THEN [key |-> k, count |-> n] ELSE items[i]]
    ELSE Append(items, [key |-> k, count |-> n])

\* del d[k]
DictDel(items, k) == SelectSeq(items, LAMBDA it : it.key # k)

\* min(d.items(), key=lambda x: x[1])[0]: the first item of least count
LeastUsed(items) ==
    items[CHOOSE i \in DOMAIN items :
              /\ \A j \in DOMAIN items : items[j].count >= items[i].count
              /\ \A j \in 1..(i - 1) : items[j].count > items[i].count].key

EcInit ==
    /\ ec_max_size \in 1..MaxCacheSize
    /\ ec_cache = {}
    /\ ec_access_count = <<>>
    /\ ec_thread = [t \in Threads |-> AtRest]
    /\ ec_raised = <<>>
    /\ ec_ops = 0

\* a thread at rest calls get(text_hash) or put(text_hash, embedding)
EcBegin(t) ==
    /\ ec_thread[t].pc = "rest"
    /\ ec_ops < MaxOps
    /\ \E op \in {"get", "put"}, h \in Hashes :
          ec_thread' = [ec_thread EXCEPT ![t] = [pc |-> op, text_hash |-> h, least |-> h]]
    /\ ec_ops' = ec_ops + 1
    /\ UNCHANGED <<ec_max_size, ec_cache, ec_access_count, ec_raised>>
    /\ UNCHANGED othersOfEc

\* get: if text_hash in self.cache ... else return None
EcGetTest(t) ==
    /\ ec_thread[t].pc = "get"
    /\ ec_thread' = [ec_thread EXCEPT ![t].pc =
                        IF ec_thread[t].text_hash \in ec_cache THEN "get_count" ELSE "rest"]
    /\ UNCHANGED <<ec_max_size, ec_cache, ec_access_count, ec_raised, ec_ops>>
    /\ UNCHANGED othersOfEc

\* get: self.access_count[text_hash] = self.access_count.get(text_hash, 0) + 1
EcGetCount(t) ==
    /\ ec_thread[t].pc = "get_count"
    /\ ec_access_count' = DictSet(ec_access_count, ec_thread[t].text_hash,
                                  CountOf(ec_access_count, ec_thread[t].text_hash) + 1)
    /\ ec_thread' = [ec_thread EXCEPT ![t].pc = "get_return"]
    /\ UNCHANGED <<ec_max_size, ec_cache, ec_raised, ec_ops>>
    /\ UNCHANGED othersOfEc

\* get: return self.cache[text_hash], a KeyError when the key has gone
EcGetReturn(t) ==
    /\ ec_thread[t].pc = "get_return"
    /\ ec_raised' = IF ec_thread[t].text_hash \in ec_cache THEN ec_raised
                    ELSE Append(ec_raised, "KeyError")
    /\ ec_thread' = [ec_thread EXCEPT ![t].pc = "rest"]
    /\ UNCHANGED <<ec_max_size, ec_cache, ec_access_count, ec_ops>>
    /\ UNCHANGED othersOfEc

\* put: if len(self.cache) >= self.max_size: self._evict_least_used()
EcPutTest(t) ==
    /\ ec_thread[t].pc = "put"
    /\ ec_thread' = [ec_thread EXCEPT ![t].pc =
                        IF Cardinality(ec_cache) >= ec_max_size THEN "evict" ELSE "put_cache"]
    /\ UNCHANGED <<ec_max_size, ec_cache, ec_access_count, ec_raised, ec_ops>>
    /\ UNCHANGED othersOfEc

\* _evict_least_used: if not self.access_count: return; least_used = min(...)
EcEvictPick(t) ==
    /\ ec_thread[t].pc = "evict"
    /\ IF ec_access_count = <<>>
       THEN ec_thread' = [ec_thread EXCEPT ![t].pc = "put_cache"]
       ELSE ec_thread' = [ec_thread EXCEPT ![t].pc = "evict_cache",
                                           ![t].least = LeastUsed(ec_access_count)]
    /\ UNCHANGED <<ec_max_size, ec_cache, ec_access_count, ec_raised, ec_ops>>
    /\ UNCHANGED othersOfEc

\* _evict_least_used: del self.cache[text_hash]
EcEvictCache(t) ==
    /\ ec_thread[t].pc = "evict_cache"
    /\ IF ec_thread[t].least \in ec_cache
       THEN /\ ec_cache' = ec_cache \ {ec_thread[t].least}
            /\ ec_thread' = [ec_thread EXCEPT ![t].pc = "evict_count"]
            /\ UNCHANGED ec_raised
       ELSE /\ ec_raised' = Append(ec_raised, "KeyError")
            /\ ec_thread' = [ec_thread EXCEPT ![t].pc = "rest"]
            /\ UNCHANGED ec_cache
    /\ UNCHANGED <<ec_max_size, ec_access_count, ec_ops>>
    /\ UNCHANGED othersOfEc

\* _evict_least_used: del self.access_count[text_hash]
EcEvictCount(t) ==
    /\ ec_thread[t].pc = "evict_count"
    /\ IF ec_thread[t].least \in KeysOf(ec_access_count)
       THEN /\ ec_access_count' = DictDel(ec_access_count, ec_thread[t].least)
            /\ ec_thread' = [ec_thread EXCEPT ![t].pc = "put_cache"]
            /\ UNCHANGED ec_raised
       ELSE /\ ec_raised' = Append(ec_raised, "KeyError")
            /\ ec_thread' = [ec_thread EXCEPT ![t].pc = "rest"]
            /\ UNCHANGED ec_access_count
    /\ UNCHANGED <<ec_max_size, ec_cache, ec_ops>>
    /\ UNCHANGED othersOfEc

\* put: self.cache[text_hash] = embedding
EcPutCache(t) ==
    /\ ec_thread[t].pc = "put_cache"
    /\ ec_cache' = ec_cache \cup {ec_thread[t].text_hash}
    /\ ec_thread' = [ec_thread EXCEPT ![t].pc = "put_count"]
    /\ UNCHANGED <<ec_max_size, ec_access_count, ec_raised, ec_ops>>
    /\ UNCHANGED othersOfEc

\* put: self.access_count[text_hash] = 1
EcPutCount(t) ==
    /\ ec_thread[t].pc = "put_count"
    /\ ec_access_count' = DictSet(ec_access_count, ec_thread[t].text_hash, 1)
    /\ ec_thread' = [ec_thread EXCEPT ![t].pc = "rest"]
    /\ UNCHANGED <<ec_max_size, ec_cache, ec_raised, ec_ops>>
    /\ UNCHANGED othersOfEc

EcNext ==
    \E t \in Threads :
        \/ EcBegin(t)
        \/ EcGetTest(t)
        \/ EcGetCount(t)
        \/ EcGetReturn(t)
        \/ EcPutTest(t)
        \/ EcEvictPick(t)
        \/ EcEvictCache(t)
        \/ EcEvictCount(t)
        \/ EcPutCache(t)
        \/ EcPutCount(t)

---------------------------------------------------------------------------
(* SpaceBiologyRAG._format_sources: the authors of a source *)

\* longest list of documents whose authors are formatted
MaxSourceDocs == 2

\* longest list of authors
MaxAuthors == 2

UnknownAuthors == <<"U","n","k","n","o","w","n"," ","A","u","t","h","o","r","s">>

A_Smith == <<"S","m","i","t","h"," ","J">>
A_Lee   == <<"L","e","e"," ","K">>

AuthorNames == {A_Smith, A_Lee}

AuthorLists == SeqsUpTo({PyStr(a) : a \in AuthorNames}, MaxAuthors)

\* what the authors key of a metadata dict can hold
AuthorValues ==
    {PyNone, PyStr(<<>>)} \cup {PyStr(a) : a \in AuthorNames}
        \cup {PyList(l) : l \in AuthorLists}

\* metadata dicts: with the authors key, and without it
AuthorMetadatas ==
    {[title |-> PyStr(T_Bone), authors |-> v] : v \in AuthorValues}
        \cup {[title |-> PyStr(T_Bone)]}

\* authors = metadata.get('authors', 'Unknown Authors')
\* if isinstance(authors, list):
\*     authors = ', '.join(authors) if authors else 'Unknown Authors'
FormatAuthors(metadata) ==
    LET authors == IF "authors" \in DOMAIN metadata THEN metadata.authors
                   ELSE PyStr(UnknownAuthors)
    IN  IF authors.kind = "list"
        THEN IF authors.items # <<>>
             THEN PyStr(Join([i \in DOMAIN authors.items |-> authors.items[i].s], <<",", " ">>))
             ELSE PyStr(UnknownAuthors)
        ELSE authors

AuInit ==
    /\ au_metadatas \in SeqsUpTo(AuthorMetadatas, MaxSourceDocs)
    /\ au_sources = <<>>
    /\ au_pc = "loop"

\* one iteration of `for doc in documents` that builds a source
AuFormatOne ==
    /\ au_pc = "loop"
    /\ Len(au_sources) < Len(au_metadatas)
    /\ au_sources' = Append(au_sources,
                            [authors |-> FormatAuthors(au_metadatas[Len(au_sources) + 1])])
    /\ UNCHANGED <<au_metadatas, au_pc>>
    /\ UNCHANGED othersOfAu

\* return sources
AuReturn ==
    /\ au_pc = "loop"
    /\ Len(au_sources) = Len(au_metadatas)
    /\ au_pc' = "done"
    /\ UNCHANGED <<au_metadatas, au_sources>>
    /\ UNCHANGED othersOfAu

AuNext == AuFormatOne \/ AuReturn

---------------------------------------------------------------------------
(* clean_text (src/utils/text_processing.py) *)

\* longest text handed to clean_text
MaxRawLen == 5

RawChars == {"a", " ", "\t", "!", "-"}

\* the punctuation the character class of line 28 keeps
KeptPunctuation == {"-", ".", "(", ")", "[", "]", "/", "+", "=", "<", ">"}

\* re.sub(r'\s+', ' ', s)
RECURSIVE CollapseWhitespace(_)
CollapseWhitespace(s) ==
    IF s = <<>> THEN <<>>
    ELSE LET n == RunLen(s, Whitespace)
         IN  IF n >= 1 THEN <<" ">> \o CollapseWhitespace(SubSeq(s, n + 1, Len(s)))
             ELSE <<Head(s)>> \o CollapseWhitespace(Tail(s))

KeptChar(c) == c \in WordChars \cup Whitespace \cup KeptPunctuation

\* re.sub(r'[^\w\s\-\.\(\)\[\]\/\+\=\<\>]', '', s)
RemoveSpecial(s) == SelectSeq(s, KeptChar)

CleanText(text) ==
    IF text = <<>> THEN <<>>
    ELSE RemoveSpecial(CollapseWhitespace(StrStrip(text)))

TxInit ==
    /\ tx_text \in SeqsUpTo(RawChars, MaxRawLen)
    /\ tx_once = <<>>
    /\ tx_twice = <<>>
    /\ tx_pc = "call"

\* cleaned = clean_text(text)
TxCall ==
    /\ tx_pc = "call"
    /\ tx_once' = CleanText(tx_text)
    /\ tx_pc' = "again"
    /\ UNCHANGED <<tx_text, tx_twice>>
    /\ UNCHANGED othersOfTx

\* clean_text(cleaned)
TxCallAgain ==
    /\ tx_pc = "again"
    /\ tx_twice' = CleanText(tx_once)
    /\ tx_pc' = "done"
    /\ UNCHANGED <<tx_text, tx_once>>
    /\ UNCHANGED othersOfTx

TxNext == TxCall \/ TxCallAgain

---------------------------------------------------------------------------
(* ChatDatabase (src/utils/chat_database.py): add_message,
   get_session_messages and delete_session on the SQLite tables *)

\* calls in one run
MaxDbCalls == 3

SessionIds == {"s1", "s2"}

Roles == {"user", "assistant"}

C_Hello == <<"h","e","l","l","o"," ">>

GenericTitle == <<"C","h","a","t"," ","S","e","s","s","i","o","n"," ","2","0","2","5">>

\* longest content used whole as a session title
SmartTitleLen == 50

\* smart_title = content[:50].strip(), "..." added when content is longer
SmartTitle(content) ==
    StrStrip(Take(content, SmartTitleLen))
        \o (IF Len(content) > SmartTitleLen THEN <<".", ".", ".">> ELSE <<>>)

\* SELECT ... FROM chat_messages WHERE session_id = ?
MessagesOf(messages, s) == SelectSeq(messages, LAMBDA m : m.session_id = s)

\* the table after INSERT INTO chat_sessions, message inserted, count and title updated
SessionAfterAdd(sessions, messages, s, role, content) ==
    LET existing == s \in DOMAIN sessions
        title == IF existing THEN sessions[s].title ELSE GenericTitle
        new_title == IF role = "user" /\ Contains(title, <<"C","h","a","t"," ","S","e","s","s","i","o","n">>)
                     THEN SmartTitle(content) ELSE title
        row == [title |-> new_title, message_count |-> Len(MessagesOf(messages, s))]
    IN  [x \in DOMAIN sessions \cup {s} |-> IF x = s THEN row ELSE sessions[x]]

DbInit ==
    /\ db_foreign_keys \in BOOLEAN
    /\ chat_sessions = <<>>
    /\ chat_messages = <<>>
    /\ db_next_id = 1
    /\ db_calls = <<>>

\* add_message(session_id, role, content): True, or False with the
\* transaction rolled back when a statement raises
DbAddMessage ==
    /\ Len(db_calls) < MaxDbCalls
    /\ \E s \in SessionIds, role \in Roles, ok \in BOOLEAN :
          IF ok
          THEN LET message == [id |-> db_next_id, session_id |-> s,
                               role |-> role, content |-> C_Hello]
                   messages == Append(chat_messages, message)
                   sessions == SessionAfterAdd(chat_sessions, messages, s, role, C_Hello)
               IN  /\ chat_messages' = messages
                   /\ chat_sessions' = sessions
                   /\ db_next_id' = db_next_id + 1
                   /\ db_calls' = Append(db_calls,
                          [op |-> "add_message", session_id |-> s, ret |-> TRUE,
                           message_id |-> message.id,
                           message_count |-> sessions[s].message_count])
          ELSE /\ db_calls' = Append(db_calls,
                      [op |-> "add_message", session_id |-> s, ret |-> FALSE,
                       message_id |-> 0, message_count |-> 0])
               /\ UNCHANGED <<chat_sessions, chat_messages, db_next_id>>
    /\ UNCHANGED db_foreign_keys
    /\ UNCHANGED othersOfDb

\* get_session_messages(session_id): the rows of the session, [] when the
\* query raises
DbGetSessionMessages ==
    /\ Len(db_calls) < MaxDbCalls
    /\ \E s \in SessionIds, ok \in BOOLEAN :
          db_calls' = Append(db_calls,
              [op |-> "get_session_messages", session_id |-> s,
               ret |-> IF ok THEN MessagesOf(chat_messages, s) ELSE <<>>])
    /\ UNCHANGED <<db_foreign_keys, chat_sessions, chat_messages, db_next_id>>
    /\ UNCHANGED othersOfDb

\* DELETE FROM chat_sessions WHERE id = ?
DeleteSessionRows(sessions, s) == [x \in DOMAIN sessions \ {s} |-> sessions[x]]

\* what ON DELETE CASCADE does to chat_messages: nothing unless the
\* connection enforces foreign keys, which no statement of ChatDatabase asks for
DeleteCascade(messages, s, foreign_keys) ==
    IF foreign_keys THEN SelectSeq(messages, LAMBDA m : m.session_id # s) ELSE messages

\* delete_session(session_id): True, or False when a statement raises
DbDeleteSession ==
    /\ Len(db_calls) < MaxDbCalls
    /\ \E s \in SessionIds, ok \in BOOLEAN :
          /\ db_calls' = Append(db_calls,
                 [op |-> "delete_session", session_id |-> s, ret |-> ok])
          /\ IF ok
             THEN /\ chat_sessions' = DeleteSessionRows(chat_sessions, s)
                  /\ chat_messages' = IF s \in DOMAIN chat_sessions
                                      THEN DeleteCascade(chat_messages, s, db_foreign_keys)
                                      ELSE chat_messages
             ELSE UNCHANGED <<chat_sessions, chat_messages>>
    /\ UNCHANGED <<db_foreign_keys, db_next_id>>
    /\ UNCHANGED othersOfDb

DbNext == DbAddMessage \/ DbGetSessionMessages \/ DbDeleteSession

---------------------------------------------------------------------------
(* VectorDBManager.batch_insert (src/backend/vector_db/base.py) calling
   PineconeDB.insert_documents on each batch *)

\* longest list of documents handed to batch_insert
MaxBatchDocs == 3

\* largest batch_size; a batch of at most InsertBatchSize documents makes
\* insert_documents call index.upsert at most once
MaxInsertBatch == 2

BiLists ==
    {[i \in DOMAIN kinds |-> DocOf(i, kinds[i])] : kinds \in SeqsUpTo(DocKinds, MaxBatchDocs)}

\* insert_documents(collection, batch) for a batch of at most InsertBatchSize
\* documents: what it returns and the ids it upserts, given whether the
\* index.upsert call raises
InsertDocuments(batch, upsert_ok) ==
    LET kept == SelectSeq(batch, HasEmbedding)
    IN  IF \E k \in DOMAIN kept : "id" \notin DOMAIN kept[k]
        THEN [success |-> FALSE, upserted |-> <<>>]
        ELSE IF kept = <<>>
        THEN [success |-> TRUE, upserted |-> <<>>]
        ELSE IF upsert_ok
        THEN [success |-> TRUE, upserted |-> [k \in DOMAIN kept |-> VectorId(kept[k])]]
        ELSE [success |-> FALSE, upserted |-> <<>>]

BiInit ==
    /\ bi_documents \in BiLists
    /\ bi_batch_size \in 1..MaxInsertBatch
    /\ bi_i = 0
    /\ bi_inserted_count = 0
    /\ bi_upserted = <<>>
    /\ bi_pc = "loop"
    /\ bi_result = -1

\* one iteration of `for i in range(0, len(documents), batch_size)`
BiInsertBatch ==
    /\ bi_pc = "loop"
    /\ bi_i < Len(bi_documents)
    /\ LET batch == SubSeq(bi_documents, bi_i + 1,
                           Min(bi_i + bi_batch_size, Len(bi_documents)))
       IN  \E upsert_ok \in BOOLEAN :
              LET r == InsertDocuments(batch, upsert_ok)
              IN  /\ bi_upserted' = bi_upserted \o r.upserted
                  /\ bi_inserted_count' =
                        IF r.success THEN bi_inserted_count + Len(batch)
                        ELSE bi_inserted_count
    /\ bi_i' = bi_i + bi_batch_size
    /\ UNCHANGED <<bi_documents, bi_batch_size, bi_pc, bi_result>>
    /\ UNCHANGED othersOfBi

\* return inserted_count
BiReturn ==
    /\ bi_pc = "loop"
    /\ bi_i >= Len(bi_documents)
    /\ bi_result' = bi_inserted_count
    /\ bi_pc' = "done"
    /\ UNCHANGED <<bi_documents, bi_batch_size, bi_i, bi_inserted_count, bi_upserted>>
    /\ UNCHANGED othersOfBi

BiNext == BiInsertBatch \/ BiReturn

---------------------------------------------------------------------------
(* Each operation under its own specification; the state of the others is
   held at rest *)

NoResult == [raised |-> FALSE, sources |-> <<>>]

FsIdle ==
    /\ fs_documents = <<>>
    /\ fs_result = NoResult
    /\ fs_pc = "idle"

ChatIdle ==
    /\ variant = "app"
    /\ query = <<>>
    /\ conversation_history = <<>>
    /\ index_matches = <<>>
    /\ pc = "idle"
    /\ enhanced_query = <<>>
    /\ query_embedding = "unset"
    /\ documents = <<>>
    /\ web_sources = <<>>
    /\ context = <<>>
    /\ prompt = <<>>
    /\ response = <<>>
    /\ llm_failed = FALSE
    /\ exc = NoExc
    /\ raised = FALSE
    /\ result = NoChatResult
    /\ steps = <<>>

HsIdle ==
    /\ hs_collections = <<>>
    /\ hs_limit = 1
    /\ hs_pc = "idle"
    /\ all_results = <<>>
    /\ hs_returned = <<>>
    /\ hs_result = <<>>
    /\ hs_raised = FALSE

EnIdle ==
    /\ en_variant = "app"
    /\ en_query = <<>>
    /\ en_history = <<>>
    /\ en_set_order = <<>>
    /\ en_runs = 1
    /\ en_outputs = <<>>

GbIdle ==
    /\ gb_model_type = "gemini"
    /\ gb_texts = <<>>
    /\ gb_batch_size = 1
    /\ gb_i = 0
    /\ gb_batch = <<>>
    /\ gb_pos = 1
    /\ gb_batch_embeddings = <<>>
    /\ gb_embeddings = <<>>
    /\ gb_pc = "idle"
    /\ gb_log = <<>>
    /\ gb_in_flight = 0
    /\ gb_failed = {}
    /\ gb_result = <<>>

PmIdle ==
    /\ pm_doc = <<>>
    /\ pm_metadata = <<>>
    /\ pm_pc = "idle"

InsIdle ==
    /\ index_store = [ns \in Namespaces |-> {}]
    /\ ins_collection = "publications"
    /\ ins_documents = <<>>
    /\ ins_vectors = <<>>
    /\ ins_i = 0
    /\ ins_pc = "idle"
    /\ ins_log = <<>>
    /\ ins_result = "unset"

AdmIdle == adm_calls = <<>>

UnitIdle == EnIdle /\ GbIdle /\ PmIdle /\ InsIdle /\ AdmIdle

ClIdle ==
    /\ cl_content = <<>>
    /\ cl_once = <<>>
    /\ cl_twice = <<>>
    /\ cl_pc = "idle"

CtIdle ==
    /\ ct_text = <<>>
    /\ ct_chunk_size = 1
    /\ ct_overlap = 0
    /\ ct_start = 0
    /\ ct_chunks = <<>>
    /\ ct_windows = <<>>
    /\ ct_starts = <<>>
    /\ ct_pc = "idle"

EcIdle ==
    /\ ec_max_size = 1
    /\ ec_cache = {}
    /\ ec_access_count = <<>>
    /\ ec_thread = <<>>
    /\ ec_raised = <<>>
    /\ ec_ops = 0

AuIdle ==
    /\ au_metadatas = <<>>
    /\ au_sources = <<>>
    /\ au_pc = "idle"

TxIdle ==
    /\ tx_text = <<>>
    /\ tx_once = <<>>
    /\ tx_twice = <<>>
    /\ tx_pc = "idle"

DbIdle ==
    /\ db_foreign_keys = FALSE
    /\ chat_sessions = <<>>
    /\ chat_messages = <<>>
    /\ db_next_id = 1
    /\ db_calls = <<>>

BiIdle ==
    /\ bi_documents = <<>>
    /\ bi_batch_size = 1
    /\ bi_i = 0
    /\ bi_inserted_count = 0
    /\ bi_upserted = <<>>
    /\ bi_pc = "idle"
    /\ bi_result = -1

UtilIdle == ClIdle /\ CtIdle /\ EcIdle /\ AuIdle /\ TxIdle /\ DbIdle /\ BiIdle

\* _format_sources on an arbitrary list of hits
FsInit ==
    /\ fs_documents \in SeqsUpTo(FsHits, MaxHits)
    /\ fs_result = NoResult
    /\ fs_pc = "call"

FsCall ==
    /\ fs_pc = "call"
    /\ fs_result' = FormatSources(fs_documents)
    /\ fs_pc' = "done"
    /\ UNCHANGED <<fs_documents, chatVars, hsVars, unitVars, utilVars>>

FsNext == FsCall

InitSources == FsInit /\ ChatIdle /\ HsIdle /\ UnitIdle /\ UtilIdle

InitChat == ChatInit /\ FsIdle /\ HsIdle /\ UnitIdle /\ UtilIdle

InitHybrid == HsInit /\ FsIdle /\ ChatIdle /\ UnitIdle /\ UtilIdle

InitEnhance == EnInit /\ FsIdle /\ ChatIdle /\ HsIdle /\ GbIdle /\ PmIdle /\ InsIdle /\ AdmIdle /\ UtilIdle

InitBatch == GbInit /\ FsIdle /\ ChatIdle /\ HsIdle /\ EnIdle /\ PmIdle /\ InsIdle /\ AdmIdle /\ UtilIdle

InitMetadata == PmInit /\ FsIdle /\ ChatIdle /\ HsIdle /\ EnIdle /\ GbIdle /\ InsIdle /\ AdmIdle /\ UtilIdle

InitInsert == InsInit /\ FsIdle /\ ChatIdle /\ HsIdle /\ EnIdle /\ GbIdle /\ PmIdle /\ AdmIdle /\ UtilIdle

\* the index holds anything; no insert_documents call is under way
AdmStart ==
    /\ AdmInit
    /\ ins_collection = "publications"
    /\ ins_documents = <<>>
    /\ ins_vectors = <<>>
    /\ ins_i = 0
    /\ ins_pc = "idle"
    /\ ins_log = <<>>
    /\ ins_result = "unset"

InitAdmin == AdmStart /\ FsIdle /\ ChatIdle /\ HsIdle /\ EnIdle /\ GbIdle /\ PmIdle /\ UtilIdle

SpecSources == InitSources /\ [][FsNext]_vars

SpecChat == InitChat /\ [][ChatNext]_vars

SpecHybrid == InitHybrid /\ [][HsNext]_vars

SpecEnhance == InitEnhance /\ [][EnNext]_vars

SpecBatch == InitBatch /\ [][GbNext]_vars

SpecMetadata == InitMetadata /\ [][PmNext]_vars

SpecInsert == InitInsert /\ [][InsNext]_vars

SpecAdmin == InitAdmin /\ [][AdmNext]_vars

InitClean == ClInit /\ FsIdle /\ ChatIdle /\ HsIdle /\ UnitIdle /\ CtIdle /\ EcIdle /\ AuIdle /\ TxIdle /\ DbIdle /\ BiIdle

InitChunk == CtInit /\ FsIdle /\ ChatIdle /\ HsIdle /\ UnitIdle /\ ClIdle /\ EcIdle /\ AuIdle /\ TxIdle /\ DbIdle /\ BiIdle

InitCache == EcInit /\ FsIdle /\ ChatIdle /\ HsIdle /\ UnitIdle /\ ClIdle /\ CtIdle /\ AuIdle /\ TxIdle /\ DbIdle /\ BiIdle

InitAuthors == AuInit /\ FsIdle /\ ChatIdle /\ HsIdle /\ UnitIdle /\ ClIdle /\ CtIdle /\ EcIdle /\ TxIdle /\ DbIdle /\ BiIdle

InitCleanText == TxInit /\ FsIdle /\ ChatIdle /\ HsIdle /\ UnitIdle /\ ClIdle /\ CtIdle /\ EcIdle /\ AuIdle /\ DbIdle /\ BiIdle

InitSessions == DbInit /\ FsIdle /\ ChatIdle /\ HsIdle /\ UnitIdle /\ ClIdle /\ CtIdle /\ EcIdle /\ AuIdle /\ TxIdle /\ BiIdle

InitBatchInsert == BiInit /\ FsIdle /\ ChatIdle /\ HsIdle /\ UnitIdle /\ ClIdle /\ CtIdle /\ EcIdle /\ AuIdle /\ TxIdle /\ DbIdle

SpecClean == InitClean /\ [][ClNext]_vars

SpecChunk == InitChunk /\ [][CtNext]_vars

SpecCache == InitCache /\ [][EcNext]_vars

SpecAuthors == InitAuthors /\ [][AuNext]_vars

SpecCleanText == InitCleanText /\ [][TxNext]_vars

SpecSessions == InitSessions /\ [][DbNext]_vars

SpecBatchInsert == InitBatchInsert /\ [][BiNext]_vars

---------------------------------------------------------------------------
(* Properties of _format_sources *)

\* the input hits whose normalized title is t
HitsTitled(docs, t) ==
    {i \in DOMAIN docs : NormTitle(MetaTitle(docs[i].metadata)) = t}

DistinctTitles(sources) ==
    \A i, j \in DOMAIN sources :
        i < j => NormTitle(sources[i].title) # NormTitle(sources[j].title)

SortedByScoreDesc(sources) ==
    \A i \in DOMAIN sources :
        i < Len(sources) => sources[i].score >= sources[i + 1].score

\* C3: for every input hit list, the output of _format_sources holds no two
\* entries with equal normalized titles and is sorted by descending score.
C3_DedupSorted ==
    fs_pc = "done" =>
        /\ DistinctTitles(fs_result.sources)
        /\ SortedByScoreDesc(fs_result.sources)

\* C3 witness: three hits arrive in ascending score order, two of them share
\* a normalized title under different spellings, and two sources come back.
C3_Witness ==
    /\ fs_pc = "done"
    /\ Len(fs_documents) = 3
    /\ fs_documents[1].score < fs_documents[2].score
    /\ fs_documents[2].score < fs_documents[3].score
    /\ fs_documents[1].metadata.title = T_StudyX
    /\ fs_documents[2].metadata.title = T_Bone
    /\ fs_documents[3].metadata.title = T_StudyXVariant
    /\ Len(fs_result.sources) = 2

\* C4: when two input hits share a normalized title, the one kept in the
\* output is the one with the higher score, whatever the arrival order.
C4_KeepsHigherScore ==
    fs_pc = "done" =>
        \A k \in DOMAIN fs_result.sources :
            \A i \in HitsTitled(fs_documents, NormTitle(fs_result.sources[k].title)) :
                fs_documents[i].score <= fs_result.sources[k].score

\* C5: no returned source has a normalized title that is empty or equal to
\* 'unknown title'.
C5_NoEmptyOrUnknownTitle ==
    fs_pc = "done" =>
        \A k \in DOMAIN fs_result.sources :
            /\ NormTitle(fs_result.sources[k].title) # <<>>
            /\ NormTitle(fs_result.sources[k].title) # UnknownTitleLower

---------------------------------------------------------------------------
(* Properties of chat *)

\* C1: an exception raised inside chat is caught: chat returns success=false,
\* sources=[] (num_sources=0) and a non-empty response, and never raises.
C1_FailureShape ==
    /\ ~raised
    /\ exc # NoExc => pc \in {"except", "returned"}
    /\ (pc = "returned" /\ exc # NoExc) =>
           /\ result.success = FALSE
           /\ result.sources = <<>>
           /\ result.num_sources = 0
           /\ result.response # <<>>

\* C1 witness: the exception came from source formatting, after retrieval and
\* generation had succeeded, and chat has returned.
C1_Witness ==
    /\ pc = "returned"
    /\ exc = TitleLowerError
    /\ documents # <<>>
    /\ ~llm_failed
    /\ ~result.success

\* C2: when the LLM generation call fails, chat returns success=false and
\* sources=[].
C2_LlmFailureReturnsFailure ==
    (pc = "returned" /\ llm_failed) =>
        /\ result.success = FALSE
        /\ result.sources = <<>>

\* C6: every returned sources list has at most 10 entries with pairwise
\* distinct normalized titles, web sources included.
C6_SourcesDistinctAtMostTen ==
    pc = "returned" =>
        /\ Len(result.sources) <= DisplayCap
        /\ DistinctTitles(result.sources)

\* C9: when the embedding is None the vector store is not queried, the search
\* returns [] without raising, and chat goes on with zero documents: a failure
\* of the request can then only come from a later step, and with a history
\* the prompt builder accepts the request succeeds.
C9_NullEmbeddingDegrades ==
    query_embedding = "None" =>
        /\ documents = <<>>
        /\ "vector_search" \notin Range(steps)
        /\ pc \notin {"embed", "search"}
        /\ ~raised
        /\ exc # NoExc => "prompt" \in Range(steps)
        /\ (pc = "returned"
            /\ PromptError(LastN(conversation_history, PromptWindow(variant))) = NoExc) =>
               /\ result.success
               /\ context[1] = NoDocumentsSentinel

\* C9 witness: the provider was called and failed although the index holds
\* matches, and chat returned a successful result.
C9_Witness ==
    /\ pc = "returned"
    /\ query_embedding = "None"
    /\ "embedding_call" \in Range(steps)
    /\ index_matches # <<>>
    /\ result.success

StepOrder == <<"enhance", "embedding_call", "vector_search", "web_sources", "context",
               "prompt", "llm_call", "clean", "format_sources", "return">>

StepRank(step) == CHOOSE r \in DOMAIN StepOrder : StepOrder[r] = step

CallCount(call) == Cardinality({i \in DOMAIN steps : steps[i] = call})

\* C10: the steps of a chat execution occur in the order enhancement,
\* embedding call, vector-store search, context, prompt, LLM generation,
\* cleaning / source formatting, return; each external service is called at
\* most once and never again after a failure.
C10_StepOrderNoRetry ==
    /\ \A i, j \in DOMAIN steps : i < j => StepRank(steps[i]) < StepRank(steps[j])
    /\ CallCount("embedding_call") <= 1
    /\ CallCount("vector_search") <= 1
    /\ CallCount("llm_call") <= 1
    /\ (pc = "returned" /\ result.success) =>
           {"enhance", "context", "prompt", "llm_call", "format_sources", "return"}
               \subseteq Range(steps)

\* C10 witness: a request that called all three services, whose LLM call
\* failed, and that has returned.
C10_Witness ==
    /\ pc = "returned"
    /\ llm_failed
    /\ {"embedding_call", "vector_search", "llm_call"} \subseteq Range(steps)

\* C11: for an empty or whitespace-only query chat short-circuits: it calls
\* neither the embedding provider nor the vector store nor the LLM, raises
\* nothing and returns an empty result.
C11_BlankQueryShortCircuits ==
    StrStrip(query) = <<>> =>
        /\ Range(steps) \cap {"embedding_call", "vector_search", "llm_call"} = {}
        /\ ~raised
        /\ pc = "returned" => result.sources = <<>>

---------------------------------------------------------------------------
(* Properties of hybrid_search *)

\* the hits the successful per-collection searches returned, tagged
OkHits ==
    UNION {Range(TagResults(hs_returned[i].results, hs_returned[i].collection)) :
              i \in {k \in DOMAIN hs_returned : hs_returned[k].ok}}

\* C7: hybrid_search returns a list sorted by descending score, of at most
\* `limit` entries, made only of hits the per-collection searches returned,
\* and it is the top `limit` of their union.
C7_TopLimitOfUnion ==
    hs_pc = "done" =>
        /\ SortedByScoreDesc(hs_result)
        /\ Len(hs_result) <= hs_limit
        /\ Range(hs_result) \subseteq OkHits
        /\ \A i, j \in DOMAIN hs_result : i # j => hs_result[i] # hs_result[j]
        /\ Len(hs_result) = (IF Cardinality(OkHits) < hs_limit
                             THEN Cardinality(OkHits) ELSE hs_limit)
        /\ \A h \in OkHits \ Range(hs_result) :
               \A k \in DOMAIN hs_result : hs_result[k].score >= h.score

\* C7 witness: two collections returned more hits than `limit` together, and
\* a hit of the second outranks a hit of the first in the result.
C7_Witness ==
    /\ hs_pc = "done"
    /\ Cardinality(OkHits) > hs_limit
    /\ \E i, j \in DOMAIN hs_result :
           /\ i < j
           /\ hs_result[i].collection = "datasets"
           /\ hs_result[j].collection = "publications"
           /\ hs_result[i].score > hs_result[j].score

\* C8: when the search of one collection fails, hybrid_search still searches
\* every other collection and returns their merged, sorted, truncated hits;
\* the failure does not reach the caller.
C8_FailureIsolated ==
    (hs_pc = "done" /\ \E i \in DOMAIN hs_returned : ~hs_returned[i].ok) =>
        /\ ~hs_raised
        /\ Len(hs_returned) = Len(hs_collections)
        /\ \A i \in DOMAIN hs_returned : hs_returned[i].collection = hs_collections[i]
        /\ Range(hs_result) \subseteq OkHits
        /\ SortedByScoreDesc(hs_result)
        /\ \A h \in OkHits :
               \/ h \in Range(hs_result)
               \/ /\ Len(hs_result) = hs_limit
                  /\ \A k \in DOMAIN hs_result : hs_result[k].score >= h.score

\* C8 witness: of three collections the second failed, and the result holds
\* hits of the first and of the third.
C8_Witness ==
    /\ hs_pc = "done"
    /\ Len(hs_returned) = 3
    /\ hs_returned[1].ok /\ ~hs_returned[2].ok /\ hs_returned[3].ok
    /\ \E i, j \in DOMAIN hs_result :
           /\ hs_result[i].collection = "publications"
           /\ hs_result[j].collection = "taskbook"

---------------------------------------------------------------------------
(* Properties of _enhance_query_with_context *)

\* C12: two calls with identical (query, history) give the identical outcome,
\* the terms of the hint and their order included, whatever run of the
\* program each call is made in.
C12_EnhanceDeterministic ==
    \A i, j \in DOMAIN en_outputs : en_outputs[i] = en_outputs[j]

IsPrefix(p, s) == Len(p) <= Len(s) /\ SubSeq(s, 1, Len(p)) = p

RECURSIVE DedupKeepFirst(_)
DedupKeepFirst(s) ==
    IF s = <<>> THEN <<>>
    ELSE LET rest == DedupKeepFirst(SubSeq(s, 1, Len(s) - 1))
         IN  IF s[Len(s)] \in Range(rest) THEN rest ELSE Append(rest, s[Len(s)])

Reverse(s) == [i \in DOMAIN s |-> s[Len(s) + 1 - i]]

\* C14: the terms of the hint are distinct, at most 3 (backend: 4), matched
\* in the last 6 (backend: 8) messages, and they are the first distinct
\* matched terms in order of first occurrence, scanning the window forward
\* or from the most recent message backward.
C14_HintTermsFirstOccurrence ==
    \A i \in DOMAIN en_outputs :
        ~en_outputs[i].raised =>
            LET t == en_outputs[i].topics
                n == MaxContextTerms(en_variant)
                window == LastN(en_history, EnhanceWindow(en_variant))
            IN  /\ \A a, b \in DOMAIN t : a # b => t[a] # t[b]
                /\ Len(t) <= n
                /\ Range(t) \subseteq RecentTopics(en_variant, window)
                /\ t \in {Take(DedupKeepFirst(RecentTopicsSeq(en_variant, window)), n),
                          Take(DedupKeepFirst(RecentTopicsSeq(en_variant, Reverse(window))), n)}

---------------------------------------------------------------------------
(* Properties of generate_batch_embeddings *)

\* C15: the list returned has the length of texts; slot i holds the
\* embedding of texts[i] or null; it is null exactly when texts[i] is empty
\* or blank or the provider failed on it, so a failure touches no other slot
\* and shifts none.
C15_BatchSlotsAligned ==
    gb_pc = "done" =>
        /\ Len(gb_result) = Len(gb_texts)
        /\ \A i \in DOMAIN gb_result :
              /\ gb_result[i] \in {NoEmbedding, Embedding(gb_texts[i]),
                                   Embedding(CleanedText(gb_texts[i]))}
              /\ gb_result[i] = NoEmbedding <=>
                     (i \in gb_failed \/ CleanedText(gb_texts[i]) = <<>>)

\* C16: with the Gemini provider at most one provider call is in flight at
\* any time, and between any two provider calls there is at least one
\* pacing delay.
C16_GeminiCallsPaced ==
    gb_model_type = "gemini" =>
        /\ gb_in_flight <= 1
        /\ \A a, b \in DOMAIN gb_log :
              (a < b /\ gb_log[a] = "call" /\ gb_log[b] = "call") =>
                  \E c \in DOMAIN gb_log : a < c /\ c < b /\ gb_log[c] = "sleep"

\* C16 witness: a Gemini batch call that made two provider calls for texts of
\* the same batch, one of which failed, has returned.
C16_Witness ==
    /\ gb_pc = "done"
    /\ gb_model_type = "gemini"
    /\ gb_batch_size >= 2
    /\ \E a, b \in DOMAIN gb_log : a < b /\ gb_log[a] = "call" /\ gb_log[b] = "call"
    /\ gb_failed # {}

---------------------------------------------------------------------------
(* Properties of _prepare_metadata *)

\* C18: every value of the metadata built for upload is a string of at most
\* 1000 characters, and a list-valued field contributes at most its first 5
\* items.
C18_MetadataCapped ==
    pm_pc = "done" =>
        \A field \in DOMAIN pm_metadata :
            /\ pm_metadata[field].kind = "str"
            /\ Len(pm_metadata[field].s) <= MetadataCap
            /\ pm_doc[field].kind = "list" =>
                   \A i \in DOMAIN pm_doc[field].items :
                       i > MetadataListCap =>
                           ~Contains(pm_metadata[field].s, Str(pm_doc[field].items[i]))

---------------------------------------------------------------------------
(* Properties of insert_documents *)

\* the ids handed to index.upsert so far, in order
RECURSIVE UpsertedIds(_)
UpsertedIds(log) ==
    IF log = <<>> THEN <<>>
    ELSE (IF Head(log).event = "upsert" THEN Head(log).ids ELSE <<>>)
         \o UpsertedIds(Tail(log))

\* the ids of the documents that have an embedding, and of those that do not
IdsWithEmbedding ==
    {VectorId(ins_documents[i]) :
        i \in {k \in DOMAIN ins_documents :
                  /\ "id" \in DOMAIN ins_documents[k]
                  /\ ("embedding" \in DOMAIN ins_documents[k]
                      /\ ins_documents[k]["embedding"] \notin {PyNone, PyList(<<>>)})}}

IdsWithoutEmbedding ==
    {VectorId(ins_documents[i]) :
        i \in {k \in DOMAIN ins_documents :
                  /\ "id" \in DOMAIN ins_documents[k]
                  /\ ~("embedding" \in DOMAIN ins_documents[k]
                       /\ ins_documents[k]["embedding"] \notin {PyNone, PyList(<<>>)})}}

BatchesWellFormed ==
    \A k \in DOMAIN ins_log :
        ins_log[k].event = "upsert" =>
            /\ ins_log[k].namespace = ins_collection
            /\ Len(ins_log[k].ids) <= InsertBatchSize

\* C17: insert_documents upserts no document whose embedding is missing or
\* empty, upserts every other document exactly once into the given namespace
\* in batches of at most 100 vectors, and returns true.
C17_SkipsAndReturnsTrue ==
    ins_pc = "done" =>
        LET upserted == UpsertedIds(ins_log)
        IN  /\ Range(upserted) \cap IdsWithoutEmbedding = {}
            /\ Range(upserted) = IdsWithEmbedding
            /\ Len(upserted) = Cardinality(IdsWithEmbedding)
            /\ BatchesWellFormed
            /\ ins_result = "True"

\* C17 as amended: no document without an embedding is ever upserted, none
\* is upserted twice, and the batches hold at most 100 vectors of the given
\* namespace; the call returns true, with every document that has an
\* embedding upserted exactly once, when no upsert raises and no such
\* document lacks an id, and returns false otherwise.
C17_SkipsEmbeddingless ==
    LET upserted == UpsertedIds(ins_log)
        broke == \E k \in DOMAIN ins_log : ins_log[k].event \in {"upsert_raised", "KeyError"}
    IN  /\ Range(upserted) \cap IdsWithoutEmbedding = {}
        /\ Range(upserted) \subseteq IdsWithEmbedding
        /\ Len(upserted) = Cardinality(Range(upserted))
        /\ BatchesWellFormed
        /\ ins_pc = "done" =>
               /\ ins_result = (IF broke THEN "False" ELSE "True")
               /\ ~broke => Range(upserted) = IdsWithEmbedding

\* C17 witness: a call that skipped a document without embedding, sent more
\* than one batch and returned true.
C17_Witness ==
    /\ ins_pc = "done"
    /\ ins_result = "True"
    /\ IdsWithoutEmbedding # {}
    /\ \E a, b \in DOMAIN ins_log :
          a < b /\ ins_log[a].event = "upsert" /\ ins_log[b].event = "upsert"

---------------------------------------------------------------------------
(* Properties of health_check, create_collection and delete_collection *)

\* C19: health_check returns true if and only if the listing of the
\* collections succeeded; when the index stats call fails it returns false.
C19_HealthCheckReflectsListing ==
    \A k \in DOMAIN adm_calls :
        adm_calls[k].op = "health_check" =>
            (adm_calls[k].ret <=> ~adm_calls[k].store_raised)

Repeated(k) ==
    /\ k + 1 \in DOMAIN adm_calls
    /\ adm_calls[k].op \in {"create_collection", "delete_collection"}
    /\ adm_calls[k + 1].op = adm_calls[k].op
    /\ adm_calls[k + 1].name = adm_calls[k].name

\* C20: create_collection or delete_collection called twice in a row returns
\* the same value and leaves the same index as called once, and
\* delete_collection of a namespace that does not exist returns true and
\* changes nothing.
C20_CreateDeleteIdempotent ==
    \A k \in DOMAIN adm_calls :
        /\ Repeated(k) =>
               /\ adm_calls[k + 1].ret = adm_calls[k].ret
               /\ adm_calls[k + 1].after = adm_calls[k].after
        /\ (adm_calls[k].op = "delete_collection"
            /\ adm_calls[k].before[adm_calls[k].name] = {}) =>
               /\ adm_calls[k].ret
               /\ adm_calls[k].after = adm_calls[k].before

\* C20 as amended: create_collection returns true and changes nothing;
\* delete_collection whose index call does not raise returns true, empties
\* the namespace and leaves the others unchanged, so that a second such call
\* returns the same and changes nothing, also for a namespace that does not
\* exist; when the index call raises it returns false and changes nothing.
C20_IdempotentUnlessStoreRaises ==
    \A k \in DOMAIN adm_calls :
        LET c == adm_calls[k]
        IN  /\ c.op = "create_collection" => c.ret /\ c.after = c.before
            /\ c.op = "delete_collection" =>
                   IF c.store_raised
                   THEN ~c.ret /\ c.after = c.before
                   ELSE /\ c.ret
                        /\ c.after[c.name] = {}
                        /\ \A ns \in Namespaces \ {c.name} : c.after[ns] = c.before[ns]
                        /\ c.before[c.name] = {} => c.after = c.before
            /\ (Repeated(k) /\ ~c.store_raised /\ ~adm_calls[k + 1].store_raised) =>
                   /\ adm_calls[k + 1].ret = c.ret
                   /\ adm_calls[k + 1].after = c.after

\* C20 witness: delete_collection emptied a namespace that held vectors
\* while the other namespace held some too, and was called again on it.
C20_Witness ==
    \E k \in DOMAIN adm_calls :
        /\ Repeated(k)
        /\ adm_calls[k].op = "delete_collection"
        /\ ~adm_calls[k].store_raised
        /\ ~adm_calls[k + 1].store_raised
        /\ \A ns \in Namespaces : adm_calls[k].before[ns] # {}

---------------------------------------------------------------------------
(* Properties of _clean_response_content *)

\* s holds a '<', one or more characters other than '>', and a '>'
HasTag(s) ==
    \E i, j \in DOMAIN s :
        /\ s[i] = "<" /\ s[j] = ">" /\ j > i + 1
        /\ \A k \in (i + 1)..(j - 1) : s[k] # ">"

HasNewlineRun(s) ==
    \E i \in DOMAIN s : i + 2 <= Len(s) /\ s[i] = "\n" /\ s[i + 1] = "\n" /\ s[i + 2] = "\n"

Trimmed(s) == s = <<>> \/ (s[1] \notin Whitespace /\ s[Len(s)] \notin Whitespace)

\* C21: the text _clean_response_content returns holds no markup tag, no run
\* of three or more newlines and no leading or trailing whitespace, and
\* cleaning it a second time changes nothing
C21_CleanedAndIdempotent ==
    /\ cl_pc \in {"again", "done"} =>
          /\ ~HasTag(cl_once)
          /\ ~HasNewlineRun(cl_once)
          /\ Trimmed(cl_once)
    /\ cl_pc = "done" => cl_twice = cl_once

\* a text with a tag, a newline run or surrounding whitespace was cleaned twice
C21_Witness ==
    /\ cl_pc = "done"
    /\ HasTag(cl_content)
    /\ cl_content[1] \in Whitespace
    /\ cl_once # <<>>
    /\ cl_once # cl_content

\* no '<' of s opens a markup tag: none is followed by a name or by '/'
NoMarkupTag(s) ==
    \A i \in DOMAIN s :
        s[i] = "<" /\ i < Len(s) => s[i + 1] \notin (WordChars \cup {"/"})

\* C22: text that holds no markup tag loses nothing but surplus newlines and
\* surrounding whitespace, so every other character of it, '<' and '>' used
\* as comparison operators included, is in the output in order
C22_OnlyTagsRemoved ==
    (cl_pc \in {"again", "done"} /\ NoMarkupTag(cl_content))
        => cl_once = StrStrip(CollapseNewlines(cl_content))

---------------------------------------------------------------------------
(* Properties of chunk_text *)

\* the 0-based positions of text that hold a character other than whitespace
InkPositions(text) == {p \in 0..(Len(text) - 1) : text[p + 1] \notin Whitespace}

\* C23: for a text longer than chunk_size, every chunk returned has at most
\* chunk_size characters, consecutive chunks share at most `overlap`
\* characters, and every character of the text that is not whitespace lies
\* in some chunk
C23_ChunksCoverText ==
    (ct_pc = "done" /\ Len(ct_text) > ct_chunk_size) =>
        /\ \A i \in DOMAIN ct_chunks : Len(ct_chunks[i]) <= ct_chunk_size
        /\ \A i \in DOMAIN ct_windows :
              i < Len(ct_windows) =>
                  ct_windows[i].end - ct_windows[i + 1].first <= ct_overlap
        /\ \A p \in InkPositions(ct_text) :
              \E i \in DOMAIN ct_windows :
                  ct_windows[i].first <= p /\ p < ct_windows[i].end

\* C27: in every run of chunk_text the start position is never negative and
\* is larger at each loop iteration than at the one before
C27_StartAdvances ==
    /\ ct_start >= 0
    /\ \A i \in DOMAIN ct_starts :
          /\ i < Len(ct_starts) => ct_starts[i] < ct_starts[i + 1]
          /\ ct_pc = "loop" => ct_starts[i] < ct_start

---------------------------------------------------------------------------
(* Properties of EmbeddingCache *)

\* no get or put is under way
CacheQuiet == \A t \in Threads : ec_thread[t].pc = "rest"

\* C24: whatever the interleaving of the gets and puts of the threads, no
\* call raises, and between calls the cache holds at most max_size entries
\* and cache and access_count have the same keys
C24_CacheBoundedAndConsistent ==
    /\ ec_raised = <<>>
    /\ CacheQuiet =>
          /\ Cardinality(ec_cache) <= ec_max_size
          /\ KeysOf(ec_access_count) = ec_cache

---------------------------------------------------------------------------
(* Properties of the authors of a source *)

\* the metadata names no author: no authors key, None, '' or []
AuthorsMissing(metadata) ==
    \/ "authors" \notin DOMAIN metadata
    \/ metadata.authors \in {PyNone, PyStr(<<>>), PyList(<<>>)}

\* C25: the authors of every source are one string that is not empty, and
\* the placeholder 'Unknown Authors' when the metadata names no author
C25_AuthorsNeverEmpty ==
    \A i \in DOMAIN au_sources :
        /\ au_sources[i].authors.kind = "str"
        /\ au_sources[i].authors.s # <<>>
        /\ AuthorsMissing(au_metadatas[i]) => au_sources[i].authors = PyStr(UnknownAuthors)

---------------------------------------------------------------------------
(* Properties of clean_text *)

NoDoubleWhitespace(s) ==
    \A i \in DOMAIN s : i < Len(s) => ~(s[i] \in Whitespace /\ s[i + 1] \in Whitespace)

\* C26: the text clean_text returns has no leading or trailing whitespace and
\* no two whitespace characters in a row, holds only word characters, single
\* spaces and the kept punctuation, and is left unchanged by a second call
C26_CleanTextNormalizes ==
    /\ tx_pc \in {"again", "done"} =>
          /\ Trimmed(tx_once)
          /\ NoDoubleWhitespace(tx_once)
          /\ \A i \in DOMAIN tx_once :
                tx_once[i] \in WordChars \cup {" "} \cup KeptPunctuation
    /\ tx_pc = "done" => tx_twice = tx_once

---------------------------------------------------------------------------
(* Properties of ChatDatabase *)

\* call j is the first call on the session of call i, after i, that can see
\* or change its messages: no add_message of that session succeeded between
FirstSince(i, j) ==
    /\ i < j
    /\ db_calls[j].session_id = db_calls[i].session_id
    /\ \A k \in (i + 1)..(j - 1) :
          ~(/\ db_calls[k].op = "add_message"
            /\ db_calls[k].session_id = db_calls[i].session_id
            /\ db_calls[k].ret = TRUE)

\* C28: once delete_session(s) has returned true, get_session_messages(s)
\* returns an empty list, and the next add_message on s starts a fresh
\* session: its message_count is 1
C28_DeleteRemovesMessages ==
    \A i, j \in DOMAIN db_calls :
        (/\ db_calls[i].op = "delete_session"
         /\ db_calls[i].ret = TRUE
         /\ FirstSince(i, j)) =>
            /\ db_calls[j].op = "get_session_messages" => db_calls[j].ret = <<>>
            /\ (db_calls[j].op = "add_message" /\ db_calls[j].ret = TRUE)
                  => db_calls[j].message_count = 1

---------------------------------------------------------------------------
(* Properties of batch_insert *)

\* C29: the count batch_insert returns is the number of documents upserted
\* into the backing store over all the batches
C29_CountsUpserted ==
    bi_pc = "done" => bi_result = Len(bi_upserted)

---------------------------------------------------------------------------
(* Reference labels of the prompt context against the sources returned *)

\* the block of the prompt context labelled 'Document i' is about this source
SameHit(block, source) ==
    /\ block.kind = "Document"
    /\ block.title = source.title
    /\ block.score = source.score

\* C30: the hits are labelled 'Document 1..n' in the order received, and in a
\* successful response the i-th source that comes from a retrieved hit is the
\* hit labelled 'Document i' in the prompt context
C30_LabelsMatchSources ==
    (pc = "returned" /\ ~raised /\ result.success) =>
        /\ \A i \in DOMAIN documents :
              /\ context[i].kind = "Document"
              /\ context[i].label = i
              /\ context[i].title = MetaTitle(documents[i].metadata)
        /\ \A i \in DOMAIN result.sources :
              result.sources[i].source_type = "document" =>
                  /\ i <= Len(documents)
                  /\ SameHit(context[i], result.sources[i])

============================================================================
